---- MODULE Spec2Model ----
(***************************************************************************)
(* A model of the RustSim discrete-event simulation kernel: the Scheduler  *)
(* (src/src/scheduler.rs), the Container of generators with their          *)
(* Active/Passive flag (src/src/container.rs), the State store             *)
(* (src/src/state.rs), the Simulation orchestrator (src/src/simulation.rs) *)
(* and the handshake example (src/examples/simple_model.rs).               *)
(*                                                                         *)
(* Durations are natural numbers (seconds).  Option<T> values are          *)
(* sequences of length 0 (None) or 1 (Some).  The BinaryHeap of the        *)
(* scheduler is a bag of entries; its pop returns any entry that is         *)
(* greatest under Ord for EventEntry, which is what the heap guarantees;    *)
(* which of several equal entries comes first is left open.                 *)
(***************************************************************************)
EXTENDS Integers, Sequences, FiniteSets, Bags, TLC

VARIABLES
    events,     \* Scheduler.events: the bag of pending EventEntry
    clock,      \* Scheduler.clock: the simulated time
    inner,      \* Container.inner: Vec<Option<(generator, EntityState)>>
    cell,       \* Simulation.state: the State held by the Rc<Cell<State>>
    failure,    \* "none", or the panic that ended the program
    host,       \* the host program: its position [pc, limit], and the keys it holds
    wakeups,    \* clock values at which an entity printed "<- HOLD"
    pops,       \* history: the times of the last two entries Scheduler::pop returned
    last        \* history: the last call, its arguments and its result

vars == <<events, clock, inner, cell, failure, host, wakeups, pops, last>>

(***************************************************************************)
(* Bounds of the model.                                                    *)
(***************************************************************************)
MaxTasks == 2   \* add_generator is called at most MaxTasks times
MaxTime == 2    \* no entry is scheduled later than MaxTime
MaxMany == 1    \* longest list an ActivateMany carries

MaxSlots == 2   \* insert is called at most MaxSlots times on a State
MaxVal == 1     \* the values of a type are 0 .. MaxVal

Keys == 0 .. (MaxTasks - 1)

\* Key::dummy(): usize::MAX, an id no Vec has a slot for; the greatest
\* 32-bit integer stands for it
Key_dummy == 2147483647
Durations == 0 .. MaxTime

None == << >>
Some(x) == << x >>

(***************************************************************************)
(* keys.rs, lib.rs: Action                                                 *)
(***************************************************************************)
Hold(d) == [kind |-> "Hold", duration |-> d, key |-> 0, keys |-> << >>]
Passivate == [kind |-> "Passivate", duration |-> 0, key |-> 0, keys |-> << >>]
ActivateOne(k) == [kind |-> "ActivateOne", duration |-> 0, key |-> k, keys |-> << >>]
ActivateMany(ks) == [kind |-> "ActivateMany", duration |-> 0, key |-> 0, keys |-> ks]
Cancel(k) == [kind |-> "Cancel", duration |-> 0, key |-> k, keys |-> << >>]

(***************************************************************************)
(* scheduler.rs                                                            *)
(***************************************************************************)
EventEntry(time, entity_key) == [time |-> time, entity_key |-> entity_key]

\* mutant: the times compared without Reverse
EventEntry_lt_unreversed(a, b) == a.time < b.time

\* Ord for EventEntry compares the Reverse<Duration> alone: a is Less than b
\* exactly when a's time is the later one.
EventEntry_lt(a, b) == a.time > b.time

Scheduler_default == [events |-> EmptyBag, clock |-> 0]

HasEntry(evs, key) == \E ev_entry \in BagToSet(evs) : ev_entry.entity_key = key

\* mutant: no test for an entry already pending
Scheduler_schedule_nocheck(sch, time, entity_key) ==
    [sch EXCEPT !.events =
         @ (+) SetToBag({EventEntry(sch.clock + time, entity_key)})]

\* mutant: a pending entry is replaced by the new one
Scheduler_schedule_replace(sch, time, entity_key) ==
    [sch EXCEPT !.events =
         [e \in {x \in BagToSet(@) : x.entity_key # entity_key} |-> @[e]]
             (+) SetToBag({EventEntry(sch.clock + time, entity_key)})]

\* mutant: the entry is enqueued at time, not at clock + time
Scheduler_schedule_absolute(sch, time, entity_key) ==
    IF HasEntry(sch.events, entity_key)
    THEN sch
    ELSE [sch EXCEPT !.events = @ (+) SetToBag({EventEntry(time, entity_key)})]

Scheduler_schedule(sch, time, entity_key) ==
    IF HasEntry(sch.events, entity_key)
    THEN sch
    ELSE [sch EXCEPT !.events =
              @ (+) SetToBag({EventEntry(sch.clock + time, entity_key)})]

Scheduler_schedule_now(sch, entity) == Scheduler_schedule(sch, 0, entity)

\* mutant: among the entries of the least time the one of the least key is
\* handed out
Heap_top_least_key(evs) ==
    {e \in BagToSet(evs) :
        \A o \in BagToSet(evs) :
            o.time > e.time \/ (o.time = e.time /\ o.entity_key >= e.entity_key)}

\* BinaryHeap::pop returns a greatest entry: one no other entry is greater than.
Heap_top(evs) ==
    {e \in BagToSet(evs) : \A o \in BagToSet(evs) : ~EventEntry_lt(e, o)}

\* Scheduler::pop when the heap hands out entry e.
Scheduler_pop(sch, e) ==
    [events |-> sch.events (-) SetToBag({e}), clock |-> e.time]

\* mutant: retain compares the entries, which are equal when their times are
Retain_by_time(evs, key) ==
    LET keep == {e \in BagToSet(evs) :
                    \A o \in BagToSet(evs) : o.entity_key = key => o.time # e.time}
    IN  [e \in keep |-> evs[e]]

\* mutant: the predicate of retain inverted
Retain_inverted(evs, key) ==
    LET keep == {e \in BagToSet(evs) : e.entity_key = key}
    IN  [e \in keep |-> evs[e]]

Retain(evs, key) ==
    LET keep == {e \in BagToSet(evs) : e.entity_key # key}
    IN  [e \in keep |-> evs[e]]

\* mutant: the whole scheduler is taken and rebuilt, the clock with it
Scheduler_remove_resets(sch, key) ==
    IF ~HasEntry(sch.events, key)
    THEN [sch |-> sch, ret |-> FALSE]
    ELSE [sch |-> [events |-> Retain(sch.events, key),
                   clock |-> Scheduler_default.clock],
          ret |-> TRUE]

Scheduler_remove(sch, key) ==
    IF ~HasEntry(sch.events, key)
    THEN [sch |-> sch, ret |-> FALSE]
    ELSE [sch |-> [sch EXCEPT !.events = Retain(@, key)], ret |-> TRUE]

(***************************************************************************)
(* container.rs                                                            *)
(***************************************************************************)
Entity(gen, state) == [gen |-> gen, state |-> state]

\* mutant: the first emptied slot is handed out again
Container_add_generator_reuses(cont, gen) ==
    IF \E i \in 1 .. Len(cont) : cont[i] = << >>
    THEN LET i == CHOOSE i \in 1 .. Len(cont) :
                     cont[i] = << >> /\ \A j \in 1 .. (i - 1) : cont[j] # << >>
         IN  [inner |-> [cont EXCEPT ![i] = << Entity(gen, "Active") >>], key |-> i - 1]
    ELSE [inner |-> Append(cont, << Entity(gen, "Active") >>), key |-> Len(cont)]

Container_add_generator(cont, gen) ==
    [inner |-> Append(cont, Some(Entity(gen, "Active"))), key |-> Len(cont)]

InRange(cont, key) == key >= 0 /\ key < Len(cont)

\* Vec::get(key.id).and_then(Option::as_ref)
Container_get(cont, key) == IF InRange(cont, key) THEN cont[key + 1] ELSE None

Container_get_state(cont, key) ==
    IF Container_get(cont, key) = None
    THEN None
    ELSE Some(Container_get(cont, key)[1].state)

Container_set_state(cont, key, state) ==
    [cont EXCEPT ![key + 1] = Some([@[1] EXCEPT !.state = state])]

Container_set_gen(cont, key, gen) ==
    [cont EXCEPT ![key + 1] = Some([@[1] EXCEPT !.gen = gen])]

\* mutant: the slot is left as it is
Container_remove_keeps(cont, key) == cont

Container_remove(cont, key) ==
    IF InRange(cont, key) THEN [cont EXCEPT ![key + 1] = None] ELSE cont

\* self.inner.len() and self.inner.is_empty()
Container_len(cont) == Len(cont)
Container_is_empty(cont) == Len(cont) = 0

(***************************************************************************)
(* state.rs: a stored value is [ty, val], ty standing for its TypeId; a    *)
(* StateKey<V> is [id, ty], ty standing for V.                             *)
(***************************************************************************)
Value(ty, val) == [ty |-> ty, val |-> val]
StateKey(id, ty) == [id |-> id, ty |-> ty]

State_default == << >>

\* mutant: the first cleared slot is handed out again
State_insert_reuses(store, value) ==
    IF \E i \in 1 .. Len(store) : store[i] = None
    THEN LET i == CHOOSE i \in 1 .. Len(store) :
                     store[i] = None /\ \A j \in 1 .. (i - 1) : store[j] # None
         IN  [store |-> [store EXCEPT ![i] = Some(value)],
              key |-> StateKey(i - 1, value.ty)]
    ELSE [store |-> Append(store, Some(value)), key |-> StateKey(Len(store), value.ty)]

State_insert(store, value) ==
    [store |-> Append(store, Some(value)), key |-> StateKey(Len(store), value.ty)]

\* Vec::get(key.id).and_then(Option::as_ref)
State_slot(store, key) ==
    IF key.id >= 0 /\ key.id < Len(store) THEN store[key.id + 1] ELSE None

\* mutant: the value is handed out whatever its type
State_downcast_unchecked(store, key) == FALSE

\* downcast::<V>().expect(..): panics when the stored value is not a V
State_downcast_fails(store, key) ==
    State_slot(store, key) # None /\ State_slot(store, key)[1].ty # key.ty

\* mutant: the value is handed out and left in its slot
State_remove_keeps(store, key) ==
    [store |-> store,
     ret   |-> State_slot(store, key),
     panic |-> State_downcast_fails(store, key)]

\* mutant: a value taken out of the last slot takes the slot with it
State_remove_shrinks(store, key) ==
    [store |-> IF State_slot(store, key) = None
               THEN store
               ELSE IF key.id + 1 = Len(store)
               THEN SubSeq(store, 1, Len(store) - 1)
               ELSE [store EXCEPT ![key.id + 1] = None],
     ret   |-> State_slot(store, key),
     panic |-> State_downcast_fails(store, key)]

State_remove(store, key) ==
    [store |-> IF State_slot(store, key) = None
               THEN store
               ELSE [store EXCEPT ![key.id + 1] = None],
     ret   |-> State_slot(store, key),
     panic |-> State_downcast_fails(store, key)]

State_get(store, key) ==
    [ret |-> State_slot(store, key), panic |-> State_downcast_fails(store, key)]

State_get_mut(store, key) == State_get(store, key)

\* a write through the reference get_mut returned
State_write(store, key, val) ==
    [store EXCEPT ![key.id + 1] = Some(Value(key.ty, val))]

State_len(store) == Len(store)
State_is_empty(store) == Len(store) = 0

(***************************************************************************)
(* Generators.  A generator is [prog, pc, key, skey]: the closure it runs, *)
(* the yield it is suspended at, and the Key and StateKeys it captured.    *)
(* Resuming it gives [gen, cell, result, wake, panic]: result is           *)
(* Some(action) for GeneratorState::Yielded and None for Complete; wake    *)
(* says that it printed "<- HOLD"; panic that it panicked while running.   *)
(***************************************************************************)
Generator(prog, pc, key, skey) == [prog |-> prog, pc |-> pc, key |-> key, skey |-> skey]

Resumed(gen, c, result, wake, panic) ==
    [gen |-> gen, cell |-> c, result |-> result, wake |-> wake, panic |-> panic]

\* A generator about which nothing is assumed: at each resumption it yields
\* any Action, or completes.  It does not touch the shared State.
FreeGenerator == Generator("free", "any", None, << >>)

KeyLists == UNION {[1 .. n -> Keys] : n \in 0 .. MaxMany}

FreeActions(now) ==
    {Hold(d) : d \in {x \in Durations : now + x <= MaxTime}}
        \cup {Passivate}
        \cup {ActivateOne(k) : k \in Keys}
        \cup {ActivateMany(ks) : ks \in KeyLists}
        \cup {Cancel(k) : k \in Keys}

Free_resume(gen, c, now) ==
    {Resumed(gen, c, Some(a), FALSE, FALSE) : a \in FreeActions(now)}
        \cup {Resumed(gen, c, None, FALSE, FALSE)}

\* A population of ManyTasks generators for ActivateMany: one activator, which
\* at each resumption passivates or activates a list of up to ManyLen handles
\* (the others', its own, in any order, with repetitions), and sleepers,
\* which passivate each time they are resumed.
ManyTasks == 3
ManyLen == 2
ManyTime == 1

ManyKeys == 0 .. (ManyTasks - 1)
ManyLists == UNION {[1 .. n -> ManyKeys] : n \in 0 .. ManyLen}
Activator == Generator("activator", "any", None, << >>)
Sleeper == Generator("sleeper", "any", None, << >>)

Activator_resume(gen, c, now) ==
    {Resumed(gen, c, Some(a), FALSE, FALSE) :
        a \in {Passivate} \cup {ActivateMany(ks) : ks \in ManyLists}}

Sleeper_resume(gen, c, now) == {Resumed(gen, c, Some(Passivate), FALSE, FALSE)}

\* An actor among the sleepers: a generator about which nothing is assumed but
\* the handles and durations it uses.  At each resumption it yields any
\* Action on the handles ManyKeys, or completes.
Actor == Generator("actor", "any", None, << >>)

ActorActions(now) ==
    {Hold(d) : d \in {x \in 0 .. ManyTime : now + x <= ManyTime}}
        \cup {Passivate}
        \cup {ActivateOne(k) : k \in ManyKeys}
        \cup {ActivateMany(ks) : ks \in ManyLists}
        \cup {Cancel(k) : k \in ManyKeys}

Actor_resume(gen, c, now) ==
    {Resumed(gen, c, Some(a), FALSE, FALSE) : a \in ActorActions(now)}
        \cup {Resumed(gen, c, None, FALSE, FALSE)}

\* The generators of the tests of container.rs: finite(name, number_of_loops)
\* yields Hold(Duration::ZERO) number_of_loops times and then completes,
\* infinite yields it for ever.  pc is the number of loops left.
MaxLoops == 1

Finite(number_of_loops) == Generator("finite", number_of_loops, None, << >>)
Infinite == Generator("infinite", 0, None, << >>)

Finite_resume(gen, c, now) ==
    IF gen.pc = 0
    THEN {Resumed(gen, c, None, FALSE, FALSE)}
    ELSE {Resumed([gen EXCEPT !.pc = @ - 1], c, Some(Hold(0)), FALSE, FALSE)}

Infinite_resume(gen, c, now) == {Resumed(gen, c, Some(Hold(0)), FALSE, FALSE)}

\* A generator built like entity_a and entity_b around the Rc<Cell<State>>:
\* at each resumption it goes on with the State it kept in its variable
\* state, or, having none, takes the State out of the cell
\* (shared_state.take(), which leaves a default State there); it makes one
\* call on it, or none; it puts it back (shared_state.set(state)) or keeps it
\* in its variable; and it yields Hold(Duration::ZERO).  skey.state is that
\* variable while it is live, skey.seen the State the last resumption took
\* out of the cell, and skey.call the call it made.  The values inserted
\* say who inserted them, main or a worker.
SharedKeys == {StateKey(id, "V") : id \in 0 .. (MaxSlots - 1)}
MainValue == Value("V", "main")
WorkerValue == Value("V", "worker")

SharedCall(op, key, value) == [op |-> op, key |-> key, value |-> value]

Locals(state, seen, call) == [state |-> state, seen |-> seen, call |-> call]

Worker == Generator("worker", "loop", None, Locals(None, None, SharedCall("none", None, None)))

\* mutant: the State is copied out of the cell and left there
Cell_take_copies(c) == [value |-> c, cell |-> c]

\* Cell::take: the value is moved out and Default::default() left in its place
Cell_take(c) == [value |-> c, cell |-> State_default]

\* Cell::set: the value in the cell is replaced
Cell_set(c, value) == value

\* the calls a worker makes on the State it has: [state, call]
Worker_calls(state) ==
    {[state |-> state, call |-> SharedCall("none", None, None)]}
        \cup {[state |-> State_insert(state, value).store,
               call |-> SharedCall("insert", Some(State_insert(state, value).key), Some(value))] :
                 value \in {v \in {WorkerValue} : Len(state) < MaxSlots}}
        \cup {[state |-> State_remove(state, key).store,
               call |-> SharedCall("remove", Some(key), State_remove(state, key).ret)] :
                 key \in {k \in SharedKeys : k.id < Len(state)}}

Worker_resume(gen, c, now) ==
    LET took == gen.skey.state = None
        t == Cell_take(c)
        state == IF took THEN t.value ELSE gen.skey.state[1]
        c1 == IF took THEN t.cell ELSE c
        seen == IF took THEN Some(t.value) ELSE None
    IN  UNION {{Resumed([gen EXCEPT !.skey = Locals(None, seen, w.call)],
                        Cell_set(c1, w.state), Some(Hold(0)), FALSE, FALSE),
                Resumed([gen EXCEPT !.skey = Locals(Some(w.state), seen, w.call)],
                        c1, Some(Hold(0)), FALSE, FALSE)} :
                   w \in Worker_calls(state)}

\* examples/simple_model.rs
HoldSecs == 5
LimitSecs == 60

Passivated(entity_a, entity_b) ==
    Value("Passivated", [entity_a |-> entity_a, entity_b |-> entity_b])

\* shared_state.take(); state.get_mut(entity_states_key).unwrap().<me> = flag;
\* shared_state.set(state)
SetPassivated(c, skey, me, flag) ==
    LET got == State_get_mut(c, skey)
    IN  IF got.panic \/ got.ret = None
        THEN [cell |-> State_default, panic |-> TRUE]
        ELSE [cell |-> State_write(c, skey, [got.ret[1].val EXCEPT ![me] = flag]),
              panic |-> FALSE]

\* the body both entities run from "passivate" on: me and other are the
\* fields of Passivated the entity writes and reads
Entity_loop(gen, c, me, other) ==
    CASE gen.pc = "passivate" ->
            \* <- PASSIVATE; <me> = false; -> HOLD
            LET w == SetPassivated(c, gen.skey.entity_states_key, me, FALSE)
            IN  IF w.panic
                THEN Resumed(gen, w.cell, None, FALSE, TRUE)
                ELSE Resumed([gen EXCEPT !.pc = "hold"], w.cell,
                             Some(Hold(HoldSecs)), FALSE, FALSE)
      [] gen.pc = "hold" ->
            \* <- HOLD; if <other> { -> ACTIVATE } else { <me> = true; -> PASSIVATE }
            LET got == State_get_mut(c, gen.skey.entity_states_key)
            IN  IF got.panic \/ got.ret = None
                THEN Resumed(gen, State_default, None, TRUE, TRUE)
                ELSE IF got.ret[1].val[other]
                THEN Resumed([gen EXCEPT !.pc = "activate"], c,
                             Some(ActivateOne(gen.key[1])), TRUE, FALSE)
                ELSE LET w == SetPassivated(c, gen.skey.entity_states_key, me, TRUE)
                     IN  IF w.panic
                         THEN Resumed(gen, w.cell, None, TRUE, TRUE)
                         ELSE Resumed([gen EXCEPT !.pc = "passivate"], w.cell,
                                      Some(Passivate), TRUE, FALSE)
      [] gen.pc = "activate" ->
            \* <me> = true; -> PASSIVATE
            LET w == SetPassivated(c, gen.skey.entity_states_key, me, TRUE)
            IN  IF w.panic
                THEN Resumed(gen, w.cell, None, FALSE, TRUE)
                ELSE Resumed([gen EXCEPT !.pc = "passivate"], w.cell,
                             Some(Passivate), FALSE, FALSE)

Entity_a_resume(gen, c) ==
    IF gen.pc = "start"
    THEN \* state.remove(entity_b_key).flatten().unwrap(); -> HOLD
         LET r == State_remove(c, gen.skey.entity_b_key)
         IN  IF r.panic \/ r.ret = None \/ r.ret[1].val = None
             THEN Resumed(gen, State_default, None, FALSE, TRUE)
             ELSE Resumed([gen EXCEPT !.pc = "hold", !.key = r.ret[1].val],
                          r.store, Some(Hold(HoldSecs)), FALSE, FALSE)
    ELSE Entity_loop(gen, c, "entity_a", "entity_b")

Entity_b_resume(gen, c) ==
    IF gen.pc = "start"
    THEN \* entity_b = true; -> PASSIVATE
         LET w == SetPassivated(c, gen.skey.entity_states_key, "entity_b", TRUE)
         IN  IF w.panic
             THEN Resumed(gen, w.cell, None, FALSE, TRUE)
             ELSE Resumed([gen EXCEPT !.pc = "passivate"], w.cell,
                          Some(Passivate), FALSE, FALSE)
    ELSE Entity_loop(gen, c, "entity_b", "entity_a")

\* Pin::new(gen).resume(resume_with): every way the generator can run on
Generator_resume(gen, c, now) ==
    CASE gen.prog = "free" -> Free_resume(gen, c, now)
      [] gen.prog = "finite" -> Finite_resume(gen, c, now)
      [] gen.prog = "infinite" -> Infinite_resume(gen, c, now)
      [] gen.prog = "activator" -> Activator_resume(gen, c, now)
      [] gen.prog = "sleeper" -> Sleeper_resume(gen, c, now)
      [] gen.prog = "actor" -> Actor_resume(gen, c, now)
      [] gen.prog = "worker" -> Worker_resume(gen, c, now)
      [] gen.prog = "entity_a" -> {Entity_a_resume(gen, c)}
      [] gen.prog = "entity_b" -> {Entity_b_resume(gen, c)}

(***************************************************************************)
(* simulation.rs.  A Simulation is [scheduler, entities, state, failure];  *)
(* failure names the panic that stopped it, with everything done before    *)
(* the panic left in place.                                                *)
(***************************************************************************)
Simulation_default ==
    [scheduler |-> Scheduler_default, entities |-> << >>,
     state |-> State_default, failure |-> "none"]

Panic(sim, msg) == [sim EXCEPT !.failure = msg]

Simulation_add_generator(sim, gen) ==
    [sim |-> [sim EXCEPT !.entities = Container_add_generator(@, gen).inner],
     key |-> Container_add_generator(sim.entities, gen).key]

Simulation_schedule(sim, time, entity_key) ==
    [sim EXCEPT !.scheduler = Scheduler_schedule(@, time, entity_key)]

Simulation_schedule_now(sim, entity_key) ==
    [sim EXCEPT !.scheduler = Scheduler_schedule_now(@, entity_key)]

Simulation_time(sim) == sim.scheduler.clock

\* the part ActivateOne and each round of ActivateMany share: unwrap the
\* target's state, flip Passive to Active, schedule it now
\* mutant: a target that is already Active is scheduled and left Active
Activate_lenient(sim, key, other_key) ==
    LET other_state == Container_get_state(sim.entities, other_key)
    IN  IF other_state = None
        THEN Panic(sim, "called Option::unwrap() on a None value")
        ELSE Simulation_schedule_now(
                 [sim EXCEPT !.entities = Container_set_state(@, other_key, "Active")],
                 other_key)

Activate(sim, key, other_key) ==
    LET other_state == Container_get_state(sim.entities, other_key)
    IN  IF other_state = None
        THEN Panic(sim, "called Option::unwrap() on a None value")
        ELSE IF other_state[1] = "Passive"
        THEN Simulation_schedule_now(
                 [sim EXCEPT !.entities = Container_set_state(@, other_key, "Active")],
                 other_key)
        ELSE Panic(sim, "tried to Activate but it was already active")

\* mutant: the list is walked from its end
RECURSIVE ActivateEach_backwards(_, _, _)
ActivateEach_backwards(sim, key, other_keys) ==
    IF other_keys = << >> \/ sim.failure # "none"
    THEN sim
    ELSE ActivateEach_backwards(Activate(sim, key, other_keys[Len(other_keys)]), key,
                                SubSeq(other_keys, 1, Len(other_keys) - 1))

RECURSIVE ActivateEach(_, _, _)
ActivateEach(sim, key, other_keys) ==
    IF other_keys = << >> \/ sim.failure # "none"
    THEN sim
    ELSE ActivateEach(Activate(sim, key, Head(other_keys)), key, Tail(other_keys))

\* mutant: the task is rescheduled without its duration
Action_Hold_now(sim, key, duration) ==
    IF Container_get_state(sim.entities, key) = Some("Passive")
    THEN Panic(sim, "A passive entity received a hold command")
    ELSE Simulation_schedule_now(sim, key)

Action_Hold(sim, key, duration) ==
    IF Container_get_state(sim.entities, key) = Some("Passive")
    THEN Panic(sim, "A passive entity received a hold command")
    ELSE Simulation_schedule(sim, duration, key)

\* mutant: the task is rescheduled as in the other arms
Action_Passivate_resched(sim, key) ==
    IF Container_get_state(sim.entities, key) = Some("Active")
    THEN Simulation_schedule_now(
             [sim EXCEPT !.entities = Container_set_state(@, key, "Passive")], key)
    ELSE Panic(sim, "A passive entity received a passivate command")

Action_Passivate(sim, key) ==
    IF Container_get_state(sim.entities, key) = Some("Active")
    THEN [sim EXCEPT !.entities = Container_set_state(@, key, "Passive")]
    ELSE Panic(sim, "A passive entity received a passivate command")

\* mutant: the activating task is not rescheduled
Action_ActivateOne_noresched(sim, key, other_key) ==
    IF Container_get_state(sim.entities, key) = Some("Passive")
    THEN Panic(sim, "A passive entity sended an activate")
    ELSE Activate(sim, key, other_key)

Action_ActivateOne(sim, key, other_key) ==
    IF Container_get_state(sim.entities, key) = Some("Passive")
    THEN Panic(sim, "A passive entity sended an activate")
    ELSE Activate(Simulation_schedule_now(sim, key), key, other_key)

\* mutant: a list that fails leaves the simulation as it was
Action_ActivateMany_atomic(sim, key, other_keys) ==
    IF Container_get_state(sim.entities, key) = Some("Passive")
    THEN Panic(sim, "A passive entity sended an activate")
    ELSE LET r == ActivateEach(Simulation_schedule_now(sim, key), key, other_keys)
         IN  IF r.failure # "none" THEN Panic(sim, r.failure) ELSE r

Action_ActivateMany(sim, key, other_keys) ==
    IF Container_get_state(sim.entities, key) = Some("Passive")
    THEN Panic(sim, "A passive entity sended an activate")
    ELSE ActivateEach(Simulation_schedule_now(sim, key), key, other_keys)

\* mutant: the target is marked Passive and its entry left in the scheduler
Action_Cancel_noremove(sim, key, other_key) ==
    IF Container_get_state(sim.entities, key) = Some("Passive")
    THEN Panic(sim, "A passive entity did a Cancel")
    ELSE LET s1 == Simulation_schedule_now(sim, key)
             other_state == Container_get_state(s1.entities, other_key)
         IN  IF other_state = None
             THEN Panic(s1, "called Option::unwrap() on a None value")
             ELSE IF other_state[1] = "Passive"
             THEN Panic(s1, "sent Cancel but is was in a passive state")
             ELSE [s1 EXCEPT !.entities = Container_set_state(@, other_key, "Passive")]

\* mutant: the target's entry is removed before the task is rescheduled
Action_Cancel_early(sim, key, other_key) ==
    IF Container_get_state(sim.entities, key) = Some("Passive")
    THEN Panic(sim, "A passive entity did a Cancel")
    ELSE LET other_state == Container_get_state(sim.entities, other_key)
         IN  IF other_state = None
             THEN Panic(sim, "called Option::unwrap() on a None value")
             ELSE IF other_state[1] = "Passive"
             THEN Panic(sim, "sent Cancel but is was in a passive state")
             ELSE LET s2 == [sim EXCEPT !.entities =
                                 Container_set_state(@, other_key, "Passive")]
                      rm == Scheduler_remove(s2.scheduler, other_key)
                  IN  IF ~rm.ret
                      THEN Panic(s2, "send Cancel and it wasn't scheduled")
                      ELSE Simulation_schedule_now([s2 EXCEPT !.scheduler = rm.sch], key)

Action_Cancel(sim, key, other_key) ==
    IF Container_get_state(sim.entities, key) = Some("Passive")
    THEN Panic(sim, "A passive entity did a Cancel")
    ELSE LET s1 == Simulation_schedule_now(sim, key)
             other_state == Container_get_state(s1.entities, other_key)
         IN  IF other_state = None
             THEN Panic(s1, "called Option::unwrap() on a None value")
             ELSE IF other_state[1] = "Passive"
             THEN Panic(s1, "sent Cancel but is was in a passive state")
             ELSE LET s2 == [s1 EXCEPT !.entities =
                                 Container_set_state(@, other_key, "Passive")]
                      rm == Scheduler_remove(s2.scheduler, other_key)
                  IN  IF ~rm.ret
                      THEN Panic(s2, "send Cancel and it wasn't scheduled")
                      ELSE [s2 EXCEPT !.scheduler = rm.sch]

\* match action { .. }
Apply(sim, key, action) ==
    CASE action.kind = "Hold" -> Action_Hold(sim, key, action.duration)
      [] action.kind = "Passivate" -> Action_Passivate(sim, key)
      [] action.kind = "ActivateOne" -> Action_ActivateOne(sim, key, action.key)
      [] action.kind = "ActivateMany" -> Action_ActivateMany(sim, key, action.keys)
      [] action.kind = "Cancel" -> Action_Cancel(sim, key, action.key)

StepResult(sim, ret, popped, action, wake) ==
    [sim |-> sim, ret |-> IF sim.failure # "none" THEN "panic" ELSE ret,
     popped |-> popped, action |-> action, wake |-> wake]

\* match state { Yielded(action) => .., Complete(_) => entities.remove(key) }
AfterResume(sim, e, r) ==
    LET s1 == [sim EXCEPT !.entities = Container_set_gen(@, e.entity_key, r.gen),
                          !.state = r.cell]
    IN  IF r.panic
        THEN StepResult(Panic(s1, "the generator panicked"), "panic",
                        Some(e), None, r.wake)
        ELSE IF r.result = None
        THEN StepResult([s1 EXCEPT !.entities = Container_remove(@, e.entity_key)],
                        "Advance", Some(e), None, r.wake)
        ELSE StepResult(Apply(s1, e.entity_key, r.result[1]),
                        "Advance", Some(e), r.result, r.wake)

\* mutant: the entry of an empty slot is skipped
StepEntry_skips(sim, e) ==
    LET s1 == [sim EXCEPT !.scheduler = Scheduler_pop(@, e)]
        slot == Container_get(s1.entities, e.entity_key)
    IN  IF slot = None
        THEN {StepResult(s1, "Advance", Some(e), None, FALSE)}
        ELSE {AfterResume(s1, e, r) :
                 r \in Generator_resume(slot[1].gen, s1.state, s1.scheduler.clock)}

\* Container::step_with on the popped key, then the match on what it gave
StepEntry(sim, e) ==
    LET s1 == [sim EXCEPT !.scheduler = Scheduler_pop(@, e)]
        slot == Container_get(s1.entities, e.entity_key)
    IN  IF slot = None
        THEN {StepResult(Panic(s1, "entities shouldn't be removed from the container"),
                         "panic", Some(e), None, FALSE)}
        ELSE {AfterResume(s1, e, r) :
                 r \in Generator_resume(slot[1].gen, s1.state, s1.scheduler.clock)}

\* mutant: Advance is returned on an empty queue too
Simulation_step_with_advance(sim) ==
    IF sim.scheduler.events = EmptyBag
    THEN {StepResult(sim, "Advance", None, None, FALSE)}
    ELSE UNION {StepEntry(sim, e) : e \in Heap_top(sim.scheduler.events)}

\* Simulation::step_with: every result the call can have in sim
Simulation_step_with(sim) ==
    IF sim.scheduler.events = EmptyBag
    THEN {StepResult(sim, "Break", None, None, FALSE)}
    ELSE UNION {StepEntry(sim, e) : e \in Heap_top(sim.scheduler.events)}

(***************************************************************************)
(* The state machine.                                                      *)
(***************************************************************************)
Sim ==
    [scheduler |-> [events |-> events, clock |-> clock], entities |-> inner,
     state |-> cell, failure |-> failure]

SetSim(sim) ==
    /\ events' = sim.scheduler.events
    /\ clock' = sim.scheduler.clock
    /\ inner' = sim.entities
    /\ cell' = sim.state
    /\ failure' = sim.failure

Call(op, key, time, popped, action, ret) ==
    [op |-> op, key |-> key, time |-> time, popped |-> popped,
     action |-> action, ret |-> ret]

LastTwo(seq) == IF Len(seq) > 2 THEN Tail(seq) ELSE seq

Idle == [pc |-> "idle", limit |-> 0]

IsSim(sim) ==
    /\ events = sim.scheduler.events
    /\ clock = sim.scheduler.clock
    /\ inner = sim.entities
    /\ cell = sim.state
    /\ failure = sim.failure

Init ==
    /\ IsSim(Simulation_default)
    /\ host = Idle
    /\ wakeups = << >>
    /\ pops = << >>
    /\ last = Call("new", None, 0, None, None, "")


Running == failure = "none"

\* the host registers a generator
AddGenerator ==
    /\ Running /\ host.pc = "idle"
    /\ Len(inner) < MaxTasks
    /\ LET r == Simulation_add_generator(Sim, FreeGenerator)
       IN  /\ SetSim(r.sim)
           /\ last' = Call("add_generator", Some(r.key), 0, None, None, "")
    /\ UNCHANGED <<host, wakeups, pops>>

\* the host calls schedule(time, entity_key)
Schedule ==
    /\ Running /\ host.pc = "idle"
    /\ \E time \in Durations, entity_key \in Keys :
          /\ clock + time <= MaxTime
          /\ SetSim(Simulation_schedule(Sim, time, entity_key))
          /\ last' = Call("schedule", Some(entity_key), time, None, None, "")
    /\ UNCHANGED <<host, wakeups, pops>>

\* the host calls schedule_now(entity_key)
ScheduleNow ==
    /\ Running /\ host.pc = "idle"
    /\ \E entity_key \in Keys :
          /\ SetSim(Simulation_schedule_now(Sim, entity_key))
          /\ last' = Call("schedule_now", Some(entity_key), 0, None, None, "")
    /\ UNCHANGED <<host, wakeups, pops>>

\* Scheduler::pop called on its own
Pop ==
    /\ Running /\ host.pc = "idle"
    /\ IF events = EmptyBag
       THEN /\ last' = Call("pop", None, 0, None, None, "None")
            /\ UNCHANGED <<events, clock, pops>>
       ELSE \E e \in Heap_top(events) :
               /\ events' = Scheduler_pop(Sim.scheduler, e).events
               /\ clock' = Scheduler_pop(Sim.scheduler, e).clock
               /\ pops' = LastTwo(Append(pops, e.time))
               /\ last' = Call("pop", None, 0, Some(e), None, "Some")
    /\ UNCHANGED <<inner, cell, failure, host, wakeups>>

\* Scheduler::remove called on its own
Remove ==
    /\ Running /\ host.pc = "idle"
    /\ \E key \in Keys :
          LET rm == Scheduler_remove(Sim.scheduler, key)
          IN  /\ events' = rm.sch.events
              /\ clock' = rm.sch.clock
              /\ last' = Call("remove", Some(key), 0, None, None,
                              IF rm.ret THEN "true" ELSE "false")
    /\ UNCHANGED <<inner, cell, failure, host, wakeups, pops>>

\* one call of Simulation::step_with
DoStep ==
    \E r \in Simulation_step_with(Sim) :
        /\ SetSim(r.sim)
        /\ wakeups' = IF r.wake THEN Append(wakeups, r.sim.scheduler.clock) ELSE wakeups
        /\ pops' = IF r.popped = None THEN pops ELSE LastTwo(Append(pops, r.popped[1].time))
        /\ last' = Call("step", None, 0, r.popped, r.action, r.ret)

\* the host calls step()
Step ==
    /\ Running /\ host.pc = "idle"
    /\ DoStep
    /\ UNCHANGED host

Next == AddGenerator \/ Schedule \/ ScheduleNow \/ Pop \/ Remove \/ Step

Spec == Init /\ [][Next]_vars

(***************************************************************************)
(* A host that uses the Simulation alone: add_generator, schedule,         *)
(* schedule_now and step.                                                  *)
(***************************************************************************)
ApiNext == AddGenerator \/ Schedule \/ ScheduleNow \/ Step

SpecApi == Init /\ [][ApiNext]_vars

(***************************************************************************)
(* A host that schedules Active tasks only: it calls schedule and          *)
(* schedule_now with the handles of tasks whose entity_state is Active.    *)
(***************************************************************************)
ScheduleActive ==
    /\ Running /\ host.pc = "idle"
    /\ \E time \in Durations, entity_key \in Keys :
          /\ Container_get_state(inner, entity_key) = Some("Active")
          /\ clock + time <= MaxTime
          /\ SetSim(Simulation_schedule(Sim, time, entity_key))
          /\ last' = Call("schedule", Some(entity_key), time, None, None, "")
    /\ UNCHANGED <<host, wakeups, pops>>

ScheduleNowActive ==
    /\ Running /\ host.pc = "idle"
    /\ \E entity_key \in Keys :
          /\ Container_get_state(inner, entity_key) = Some("Active")
          /\ SetSim(Simulation_schedule_now(Sim, entity_key))
          /\ last' = Call("schedule_now", Some(entity_key), 0, None, None, "")
    /\ UNCHANGED <<host, wakeups, pops>>

ActiveNext == AddGenerator \/ ScheduleActive \/ ScheduleNowActive \/ Step

SpecActive == Init /\ [][ActiveNext]_vars

(***************************************************************************)
(* A host that keeps track of the tasks that cancelled themselves:         *)
(* host.self holds the handles of the tasks that yielded Cancel of their   *)
(* own handle and have not been activated by another task since, and       *)
(* host.sched those of them the host has scheduled since.  The host        *)
(* schedules with schedule_now; time passes by the tasks' Hold.            *)
(***************************************************************************)
SelfInit ==
    /\ IsSim(Simulation_default)
    /\ host = [pc |-> "idle", limit |-> 0, self |-> {}, sched |-> {}]
    /\ wakeups = << >>
    /\ pops = << >>
    /\ last = Call("new", None, 0, None, None, "")

SelfScheduleNow ==
    /\ Running /\ host.pc = "idle"
    /\ \E entity_key \in Keys :
          /\ SetSim(Simulation_schedule_now(Sim, entity_key))
          /\ last' = Call("schedule_now", Some(entity_key), 0, None, None, "")
          /\ host' = [host EXCEPT !.sched = @ \cup ({entity_key} \cap host.self)]
    /\ UNCHANGED <<wakeups, pops>>

\* the handles a step made Active that was called with the registry cont
\* and left it as cont2
MadeActive(cont, cont2) ==
    {k \in Keys : Container_get_state(cont, k) = Some("Passive")
                     /\ Container_get_state(cont2, k) = Some("Active")}

SelfStep ==
    /\ Running /\ host.pc = "idle"
    /\ DoStep
    /\ LET cancelled ==
               IF /\ last'.popped # None /\ last'.action # None
                  /\ last'.action[1] = Cancel(last'.popped[1].entity_key)
                  /\ last'.ret = "Advance"
               THEN {last'.popped[1].entity_key}
               ELSE {}
       IN  host' = [host EXCEPT !.self = (@ \cup cancelled) \ MadeActive(inner, inner'),
                                !.sched = @ \ MadeActive(inner, inner')]

SelfNext == AddGenerator \/ SelfScheduleNow \/ SelfStep

SpecSelf == SelfInit /\ [][SelfNext]_vars

(***************************************************************************)
(* examples/simple_model.rs: main.  HandshakeInit is the program at line   *)
(* 51: the State holds the two values main inserted, both entities are     *)
(* registered, and the State is back in the shared cell.                   *)
(***************************************************************************)
Main_entity_b_key == State_insert(State_default, Value("Option<Key>", None))
Main_entity_states == State_insert(Main_entity_b_key.store, Passivated(FALSE, FALSE))

Main_a_key ==
    Simulation_add_generator(Simulation_default,
        Generator("entity_a", "start", None,
                  [entity_b_key |-> Main_entity_b_key.key,
                   entity_states_key |-> Main_entity_states.key]))

Main_b_key ==
    Simulation_add_generator(Main_a_key.sim,
        Generator("entity_b", "start", Some(Main_a_key.key),
                  [entity_states_key |-> Main_entity_states.key]))

\* *state.get_mut(entity_b_key).unwrap() = Some(b_key); shared_state.set(state)
Main_state ==
    State_write(Main_entity_states.store, Main_entity_b_key.key, Some(Main_b_key.key))

HandshakeInit ==
    /\ IsSim([Main_b_key.sim EXCEPT !.state = Main_state])
    /\ host = [pc |-> "main52", limit |-> 0]
    /\ wakeups = << >>
    /\ pops = << >>
    /\ last = Call("new", None, 0, None, None, "")

\* simulation.schedule_now(b_key)
MainScheduleB ==
    /\ Running /\ host.pc = "main52"
    /\ SetSim(Simulation_schedule_now(Sim, Main_b_key.key))
    /\ last' = Call("schedule_now", Some(Main_b_key.key), 0, None, None, "")
    /\ host' = [host EXCEPT !.pc = "main53"]
    /\ UNCHANGED <<wakeups, pops>>

\* simulation.schedule_now(a_key)
MainScheduleA ==
    /\ Running /\ host.pc = "main53"
    /\ SetSim(Simulation_schedule_now(Sim, Main_a_key.key))
    /\ last' = Call("schedule_now", Some(Main_a_key.key), 0, None, None, "")
    /\ host' = [host EXCEPT !.pc = "main56"]
    /\ UNCHANGED <<wakeups, pops>>

\* simulation.run_with_limit(Duration::from_secs(60)) is entered
MainRun ==
    /\ Running /\ host.pc = "main56"
    /\ host' = [pc |-> "run_step", limit |-> LimitSecs]
    /\ last' = Call("run_with_limit", None, LimitSecs, None, None, "")
    /\ UNCHANGED <<events, clock, inner, cell, failure, wakeups, pops>>

\* mutant: an event at or past the limit is left in the queue
RunStep_prefilter ==
    /\ Running /\ host.pc = "run_step"
    /\ IF \E e \in Heap_top(events) : e.time >= host.limit
       THEN /\ host' = [host EXCEPT !.pc = "done"]
            /\ last' = Call("time", None, Simulation_time(Sim), None, None, "")
            /\ UNCHANGED <<events, clock, inner, cell, failure, wakeups, pops>>
       ELSE /\ DoStep
            /\ host' = IF last'.ret = "Advance" THEN [host EXCEPT !.pc = "run_check"]
                       ELSE IF last'.ret = "Break" THEN [host EXCEPT !.pc = "done"]
                       ELSE host

\* run_with_limit: while let ShouldContinue::Advance = self.step()
RunStep ==
    /\ Running /\ host.pc = "run_step"
    /\ DoStep
    /\ host' = IF last'.ret = "Advance" THEN [host EXCEPT !.pc = "run_check"]
               ELSE IF last'.ret = "Break" THEN [host EXCEPT !.pc = "done"]
               ELSE host

\* mutant: the limit is tested with > instead of >=
RunCheck_strict ==
    /\ Running /\ host.pc = "run_check"
    /\ host' = IF Simulation_time(Sim) > host.limit
               THEN [host EXCEPT !.pc = "done"]
               ELSE [host EXCEPT !.pc = "run_step"]
    /\ last' = Call("time", None, Simulation_time(Sim), None, None, "")
    /\ UNCHANGED <<events, clock, inner, cell, failure, wakeups, pops>>

\* run_with_limit: if self.time() >= limit { break; }
RunCheck ==
    /\ Running /\ host.pc = "run_check"
    /\ host' = IF Simulation_time(Sim) >= host.limit
               THEN [host EXCEPT !.pc = "done"]
               ELSE [host EXCEPT !.pc = "run_step"]
    /\ last' = Call("time", None, Simulation_time(Sim), None, None, "")
    /\ UNCHANGED <<events, clock, inner, cell, failure, wakeups, pops>>

HandshakeNext == MainScheduleB \/ MainScheduleA \/ MainRun \/ RunStep \/ RunCheck

SpecHandshake == HandshakeInit /\ [][HandshakeNext]_vars

(***************************************************************************)
(* A host that registers the activator and then sleepers, ManyTasks         *)
(* generators at most, schedules them (also while they are Passive), and   *)
(* steps.                                                                  *)
(***************************************************************************)
ManyAddGenerator ==
    /\ Running /\ host.pc = "idle"
    /\ Len(inner) < ManyTasks
    /\ LET r == Simulation_add_generator(Sim, IF inner = << >> THEN Activator ELSE Sleeper)
       IN  /\ SetSim(r.sim)
           /\ last' = Call("add_generator", Some(r.key), 0, None, None, "")
    /\ UNCHANGED <<host, wakeups, pops>>

ManySchedule ==
    /\ Running /\ host.pc = "idle"
    /\ \E time \in 0 .. ManyTime, entity_key \in ManyKeys :
          /\ InRange(inner, entity_key)
          /\ clock + time <= ManyTime
          /\ SetSim(Simulation_schedule(Sim, time, entity_key))
          /\ last' = Call("schedule", Some(entity_key), time, None, None, "")
    /\ UNCHANGED <<host, wakeups, pops>>

ManyStep ==
    /\ Running /\ host.pc = "idle"
    /\ \E r \in Simulation_step_with(Sim) :
          /\ SetSim(r.sim)
          /\ last' = Call("step", None, 0, r.popped, r.action, r.ret)
    /\ UNCHANGED <<host, wakeups, pops>>

ManyNext == ManyAddGenerator \/ ManySchedule \/ ManyStep

SpecMany == Init /\ [][ManyNext]_vars

(***************************************************************************)
(* A host that registers the actor and then sleepers, ManyTasks generators *)
(* at most, schedules them and steps.                                      *)
(***************************************************************************)
FrameAddGenerator ==
    /\ Running /\ host.pc = "idle"
    /\ Len(inner) < ManyTasks
    /\ LET r == Simulation_add_generator(Sim, IF inner = << >> THEN Actor ELSE Sleeper)
       IN  /\ SetSim(r.sim)
           /\ last' = Call("add_generator", Some(r.key), 0, None, None, "")
    /\ UNCHANGED <<host, wakeups, pops>>

FrameNext == FrameAddGenerator \/ ManySchedule \/ ManyStep

SpecFrame == Init /\ [][FrameNext]_vars

(***************************************************************************)
(* A host that registers finite and infinite generators, schedules handles *)
(* for the current time (those it got, those it never got, and the dummy)  *)
(* and steps.                                                              *)
(***************************************************************************)
RunGenerators == {Finite(n) : n \in 0 .. MaxLoops} \cup {Infinite}

RunAddGenerator ==
    /\ Running /\ host.pc = "idle"
    /\ Len(inner) < MaxTasks
    /\ \E gen \in RunGenerators :
          LET r == Simulation_add_generator(Sim, gen)
          IN  /\ SetSim(r.sim)
              /\ last' = Call("add_generator", Some(r.key), 0, None, None, "")
    /\ UNCHANGED <<host, wakeups, pops>>

RunScheduleNow ==
    /\ Running /\ host.pc = "idle"
    /\ \E entity_key \in Keys \cup {Key_dummy} :
          /\ SetSim(Simulation_schedule_now(Sim, entity_key))
          /\ last' = Call("schedule_now", Some(entity_key), 0, None, None, "")
    /\ UNCHANGED <<host, wakeups, pops>>

StaleNext == RunAddGenerator \/ RunScheduleNow \/ Step

SpecStale == Init /\ [][StaleNext]_vars

(***************************************************************************)
(* A host that counts its calls of add_generator in host.adds, schedules   *)
(* handles for the current time, steps, and takes generators out of the    *)
(* Container with Container::remove.                                       *)
(***************************************************************************)
AddInit ==
    /\ IsSim(Simulation_default)
    /\ host = [pc |-> "idle", limit |-> 0, adds |-> 0]
    /\ wakeups = << >>
    /\ pops = << >>
    /\ last = Call("new", None, 0, None, None, "")

CountAddGenerator ==
    /\ Running /\ host.pc = "idle"
    /\ host.adds < MaxTasks
    /\ \E gen \in RunGenerators :
          LET r == Simulation_add_generator(Sim, gen)
          IN  /\ SetSim(r.sim)
              /\ last' = Call("add_generator", Some(r.key), 0, None, None, "")
    /\ host' = [host EXCEPT !.adds = @ + 1]
    /\ UNCHANGED <<wakeups, pops>>

\* Container::remove called on its own
ContainerRemove ==
    /\ Running /\ host.pc = "idle"
    /\ \E key \in Keys :
          /\ inner' = Container_remove(inner, key)
          /\ last' = Call("container_remove", Some(key), 0, None, None,
                          IF Container_get(inner, key) = None THEN "None" ELSE "Some")
    /\ UNCHANGED <<events, clock, cell, failure, host, wakeups, pops>>

AddNext == CountAddGenerator \/ RunScheduleNow \/ Step \/ ContainerRemove

SpecAdd == AddInit /\ [][AddNext]_vars

(***************************************************************************)
(* A host that has set up a model, by registering generators and           *)
(* scheduling some of them, and then calls run_until_empty or              *)
(* run_with_limit.                                                         *)
(***************************************************************************)
RECURSIVE AddGenerators(_, _)
AddGenerators(sim, gens) ==
    IF gens = << >>
    THEN sim
    ELSE AddGenerators(Simulation_add_generator(sim, Head(gens)).sim, Tail(gens))

\* schedule(times[k][1], k) for the handles k from key on that have a time
RECURSIVE ScheduleFrom(_, _, _)
ScheduleFrom(sim, times, key) ==
    IF key >= Len(times)
    THEN sim
    ELSE ScheduleFrom(IF times[key + 1] = None
                      THEN sim
                      ELSE Simulation_schedule(sim, times[key + 1][1], key),
                      times, key + 1)

SetUp(gens, times) ==
    ScheduleFrom(AddGenerators(Simulation_default, gens), times, 0)

RunInit ==
    /\ \E n \in 0 .. MaxTasks :
          \E gens \in [1 .. n -> RunGenerators],
             times \in [1 .. n -> {None} \cup {Some(d) : d \in Durations}] :
                IsSim(SetUp(gens, times))
    /\ host = Idle
    /\ wakeups = << >>
    /\ pops = << >>
    /\ last = Call("new", None, 0, None, None, "")

\* the host calls run_until_empty()
CallRunUntilEmpty ==
    /\ Running /\ host.pc = "idle"
    /\ host' = [pc |-> "until_step", limit |-> 0]
    /\ last' = Call("run_until_empty", None, 0, None, None, "")
    /\ UNCHANGED <<events, clock, inner, cell, failure, wakeups, pops>>

\* mutant: the loop is left after its first step
UntilStep_once ==
    /\ Running /\ host.pc = "until_step"
    /\ DoStep
    /\ host' = IF last'.ret \in {"Break", "Advance"} THEN [host EXCEPT !.pc = "done"] ELSE host

\* run_until_empty: while let ShouldContinue::Advance = self.step() {}
UntilStep ==
    /\ Running /\ host.pc = "until_step"
    /\ DoStep
    /\ host' = IF last'.ret = "Break" THEN [host EXCEPT !.pc = "done"] ELSE host

UntilNext == CallRunUntilEmpty \/ UntilStep

\* the program goes on: run_until_empty is called and its loop runs while it can
SpecUntilEmpty ==
    RunInit /\ [][UntilNext]_vars /\ WF_vars(CallRunUntilEmpty) /\ WF_vars(UntilStep)

\* the host calls run_with_limit(limit)
CallRunWithLimit ==
    /\ Running /\ host.pc = "idle"
    /\ \E limit \in Durations :
          /\ host' = [pc |-> "run_step", limit |-> limit]
          /\ last' = Call("run_with_limit", None, limit, None, None, "")
    /\ UNCHANGED <<events, clock, inner, cell, failure, wakeups, pops>>

LimitNext == CallRunWithLimit \/ RunStep \/ RunCheck

SpecWithLimit == RunInit /\ [][LimitNext]_vars

(***************************************************************************)
(* A host that has set up a model and calls run_with_limit, and again      *)
(* after it has returned.  host.at is the clock and host.pending whether   *)
(* the queue had an entry when the call was made; host.steps counts the    *)
(* events the call has processed, up to MaxCount.                          *)
(***************************************************************************)
MaxCount == 2

AgainInit ==
    /\ \E n \in 0 .. MaxTasks :
          \E gens \in [1 .. n -> RunGenerators],
             times \in [1 .. n -> {None} \cup {Some(d) : d \in Durations}] :
                IsSim(SetUp(gens, times))
    /\ host = [pc |-> "idle", limit |-> 0, at |-> 0, pending |-> FALSE, steps |-> 0]
    /\ wakeups = << >>
    /\ pops = << >>
    /\ last = Call("new", None, 0, None, None, "")

CallAgain ==
    /\ Running /\ host.pc \in {"idle", "done"}
    /\ \E limit \in Durations :
          /\ host' = [pc |-> "run_step", limit |-> limit, at |-> clock,
                      pending |-> events # EmptyBag, steps |-> 0]
          /\ last' = Call("run_with_limit", None, limit, None, None, "")
    /\ UNCHANGED <<events, clock, inner, cell, failure, wakeups, pops>>

Counted(h, popped) ==
    IF popped = None \/ h.steps = MaxCount THEN h ELSE [h EXCEPT !.steps = @ + 1]

\* mutant: the limit is tested before the step
AgainStep_prefilter ==
    /\ Running /\ host.pc = "run_step"
    /\ IF Simulation_time(Sim) >= host.limit
       THEN /\ host' = [host EXCEPT !.pc = "done"]
            /\ last' = Call("time", None, Simulation_time(Sim), None, None, "")
            /\ UNCHANGED <<events, clock, inner, cell, failure, wakeups, pops>>
       ELSE /\ DoStep
            /\ host' = Counted(IF last'.ret = "Advance" THEN [host EXCEPT !.pc = "run_check"]
                               ELSE IF last'.ret = "Break" THEN [host EXCEPT !.pc = "done"]
                               ELSE host,
                               last'.popped)

\* run_with_limit: while let ShouldContinue::Advance = self.step()
AgainStep ==
    /\ Running /\ host.pc = "run_step"
    /\ DoStep
    /\ host' = Counted(IF last'.ret = "Advance" THEN [host EXCEPT !.pc = "run_check"]
                       ELSE IF last'.ret = "Break" THEN [host EXCEPT !.pc = "done"]
                       ELSE host,
                       last'.popped)

AgainNext == CallAgain \/ AgainStep \/ RunCheck

SpecAgain == AgainInit /\ [][AgainNext]_vars

(***************************************************************************)
(* A host that works on one State: it inserts values of two types, and     *)
(* calls get, get_mut and remove with the handles insert gave it and with  *)
(* handles it got elsewhere (any id, any type).  host.issued lists what    *)
(* insert returned, with the value inserted and whether remove has been    *)
(* called with the handle.                                                 *)
(***************************************************************************)
StoreTypes == {"V", "W"}
StoreValues == {Value(ty, val) : ty \in StoreTypes, val \in 0 .. MaxVal}
StoreKeys == {StateKey(id, ty) : id \in 0 .. MaxSlots, ty \in StoreTypes}

StoreCall(op, key, value, ret, panic) ==
    [op |-> op, key |-> key, value |-> value, ret |-> ret, panic |-> panic]

\* .expect(msg) on the result of the downcast
Expect(panic, msg) == IF panic THEN msg ELSE "none"

StoreInit ==
    /\ IsSim(Simulation_default)
    /\ host = [pc |-> "idle", limit |-> 0, issued |-> << >>]
    /\ wakeups = << >>
    /\ pops = << >>
    /\ last = StoreCall("new", None, None, None, FALSE)

StoreInsert ==
    /\ Running
    /\ Len(cell) < MaxSlots
    /\ \E value \in StoreValues :
          LET r == State_insert(cell, value)
          IN  /\ cell' = r.store
              /\ host' = [host EXCEPT !.issued =
                              Append(@, [key |-> r.key, value |-> value, removed |-> FALSE])]
              /\ last' = StoreCall("insert", Some(r.key), Some(value), None, FALSE)
    /\ UNCHANGED <<events, clock, inner, failure, wakeups, pops>>

StoreGet ==
    /\ Running
    /\ \E key \in StoreKeys :
          LET r == State_get(cell, key)
          IN  /\ failure' = Expect(r.panic, "Ensured by the key type.")
              /\ last' = StoreCall("get", Some(key), None,
                                   IF r.panic THEN None ELSE r.ret, r.panic)
    /\ UNCHANGED <<events, clock, inner, cell, host, wakeups, pops>>

StoreGetMut ==
    /\ Running
    /\ \E key \in StoreKeys :
          LET r == State_get_mut(cell, key)
          IN  /\ failure' = Expect(r.panic, "Ensured by the key type.")
              /\ last' = StoreCall("get_mut", Some(key), None,
                                   IF r.panic THEN None ELSE r.ret, r.panic)
    /\ UNCHANGED <<events, clock, inner, cell, host, wakeups, pops>>

StoreRemove ==
    /\ Running
    /\ \E key \in StoreKeys :
          LET r == State_remove(cell, key)
          IN  /\ cell' = r.store
              /\ failure' = Expect(r.panic, "Ensured by the Key type.")
              /\ host' = [host EXCEPT !.issued =
                              [i \in DOMAIN @ |->
                                  IF @[i].key = key THEN [@[i] EXCEPT !.removed = TRUE]
                                  ELSE @[i]]]
              /\ last' = StoreCall("remove", Some(key), None,
                                   IF r.panic THEN None ELSE r.ret, r.panic)
    /\ UNCHANGED <<events, clock, inner, wakeups, pops>>

StoreNext == StoreInsert \/ StoreGet \/ StoreGetMut \/ StoreRemove

SpecStore == StoreInit /\ [][StoreNext]_vars

(***************************************************************************)
(* A host that works on the State store and on the registry of tasks and   *)
(* counts its calls: host.inserts the calls of State::insert, host.adds    *)
(* those of add_generator.  It works on the store first, inserting and     *)
(* removing with the keys of every slot and type; from its first           *)
(* add_generator on it registers, schedules handles for the current time,  *)
(* steps, and takes generators out of the Container.                       *)
(***************************************************************************)
LenInit ==
    /\ IsSim(Simulation_default)
    /\ host = [pc |-> "idle", limit |-> 0, adds |-> 0, inserts |-> 0]
    /\ wakeups = << >>
    /\ pops = << >>
    /\ last = Call("new", None, 0, None, None, "")

LenInsert ==
    /\ Running /\ host.pc = "idle"
    /\ inner = << >>
    /\ host.inserts < MaxSlots
    /\ LET r == State_insert(cell, MainValue)
       IN  /\ cell' = r.store
           /\ last' = Call("insert", Some(r.key.id), 0, None, None, "")
    /\ host' = [host EXCEPT !.inserts = @ + 1]
    /\ UNCHANGED <<events, clock, inner, failure, wakeups, pops>>

LenRemove ==
    /\ Running /\ host.pc = "idle"
    /\ inner = << >>
    /\ \E key \in StoreKeys :
          LET r == State_remove(cell, key)
          IN  /\ cell' = r.store
              /\ failure' = Expect(r.panic, "Ensured by the Key type.")
              /\ last' = Call("state_remove", Some(key.id), 0, None, None,
                              IF r.panic THEN "panic"
                              ELSE IF r.ret = None THEN "None" ELSE "Some")
    /\ UNCHANGED <<events, clock, inner, host, wakeups, pops>>

SpecLen ==
    LenInit /\ [][\/ LenInsert \/ LenRemove
                  \/ CountAddGenerator \/ RunScheduleNow \/ Step \/ ContainerRemove]_vars

(***************************************************************************)
(* A host and SharedTasks workers on the State of the Simulation.  The     *)
(* host inserts values as main does (take, insert, set), then registers    *)
(* the workers and schedules each of them, and then steps.  A step moves   *)
(* what the resumed worker noted in skey.seen and skey.call into last.     *)
(* host.issued lists the keys insert has returned, to the host and to the  *)
(* workers; host.out says whether the State has stayed in the cell between *)
(* the resumptions ("in"), or a worker has yielded with the State in its   *)
(* variable and nothing has been put into the cell since ("taken"), or     *)
(* something has ("replaced"); host.holder is the worker that first        *)
(* yielded so, until it puts the State back.                               *)
(***************************************************************************)
SharedTasks == 2

NoCall == SharedCall("none", None, None)

SharedLast(op, key, popped, ret, seen, call) ==
    [op |-> op, key |-> key, popped |-> popped, ret |-> ret, seen |-> seen, call |-> call]

SharedInit ==
    /\ IsSim(Simulation_default)
    /\ host = [pc |-> "idle", limit |-> 0, issued |-> << >>, out |-> "in", holder |-> None]
    /\ wakeups = << >>
    /\ pops = << >>
    /\ last = SharedLast("new", None, None, "", None, NoCall)

Issue(issued, key, value) == Append(issued, [key |-> key, value |-> value, removed |-> FALSE])

MarkRemoved(issued, key) ==
    [i \in DOMAIN issued |->
        IF issued[i].key = key THEN [issued[i] EXCEPT !.removed = TRUE] ELSE issued[i]]

\* main, before it registers its generators: shared_state.take();
\* state.insert(value); shared_state.set(state)
SharedInsert ==
    /\ Running /\ host.pc = "idle"
    /\ inner = << >>
    /\ Len(cell) < MaxSlots /\ Len(host.issued) < MaxSlots
    /\ LET t == Cell_take(cell)
           r == State_insert(t.value, MainValue)
       IN  /\ cell' = Cell_set(t.cell, r.store)
           /\ host' = [host EXCEPT !.issued = Issue(@, r.key, MainValue)]
           /\ last' = SharedLast("insert", None, None, "", Some(t.value),
                                 SharedCall("insert", Some(r.key), Some(MainValue)))
    /\ UNCHANGED <<events, clock, inner, failure, wakeups, pops>>

\* main, before it runs the simulation: add_generator(worker) and
\* schedule_now of the key it returned
SharedAddGenerator ==
    /\ Running /\ host.pc = "idle"
    /\ pops = << >>
    /\ Len(inner) < SharedTasks
    /\ LET r == Simulation_add_generator(Sim, Worker)
       IN  /\ SetSim(Simulation_schedule_now(r.sim, r.key))
           /\ last' = SharedLast("add_generator", Some(r.key), None, "", None, NoCall)
    /\ UNCHANGED <<host, wakeups, pops>>

\* what the resumption of worker key, which left it as gen, adds to the history
SharedHistory(h, key, gen) ==
    LET call == gen.skey.call
        holds == gen.skey.state # None
    IN  [h EXCEPT
           !.issued = IF call.op = "insert" THEN Issue(@, call.key[1], call.value[1])
                      ELSE IF call.op = "remove" THEN MarkRemoved(@, call.key[1])
                      ELSE @,
           !.out = IF @ = "in" THEN (IF holds THEN "taken" ELSE "in")
                   ELSE IF @ = "taken" /\ holds THEN "taken"
                   ELSE "replaced",
           !.holder = IF h.out = "in" /\ holds THEN Some(key)
                      ELSE IF @ = Some(key) /\ ~holds THEN None
                      ELSE @]

\* the notes of the worker in slot key are taken away
NotesTaken(sim, key) ==
    [sim EXCEPT !.entities[key + 1][1].gen.skey =
                    Locals(@.state, None, NoCall)]

SharedStep ==
    /\ Running /\ host.pc = "idle"
    /\ \E r \in Simulation_step_with(Sim) :
          /\ pops' = IF r.popped = None THEN pops ELSE LastTwo(Append(pops, r.popped[1].time))
          /\ IF r.popped = None
             THEN /\ SetSim(r.sim)
                  /\ last' = SharedLast("step", None, None, r.ret, None, NoCall)
                  /\ UNCHANGED host
             ELSE LET key == r.popped[1].entity_key
                      gen == Container_get(r.sim.entities, key)[1].gen
                  IN  /\ SetSim(NotesTaken(r.sim, key))
                      /\ last' = SharedLast("step", None, r.popped, r.ret,
                                            gen.skey.seen, gen.skey.call)
                      /\ host' = SharedHistory(host, key, gen)
                      /\ Len(host'.issued) <= MaxSlots
    /\ UNCHANGED wakeups

SharedNext == SharedInsert \/ SharedAddGenerator \/ SharedStep

SpecShared == SharedInit /\ [][SharedNext]_vars

(***************************************************************************)
(* Vocabulary of the properties.  Unprimed variables are the state before  *)
(* a call, primed ones the state after it, and last' is the call.          *)
(***************************************************************************)
\* the call just made popped an entry (Scheduler::pop, directly or in step)
Popped == last'.op \in {"pop", "step"} /\ last'.popped # None

\* the entries of evs that belong to key
EntriesOf(evs, key) == {e \in BagToSet(evs) : e.entity_key = key}

\* key has exactly the one pending entry (time, key)
OnlyEntry(evs, key, time) ==
    /\ EntriesOf(evs, key) = {EventEntry(time, key)}
    /\ CopiesIn(EventEntry(time, key), evs) = 1

\* the entries of every handle but those in keys are the same in evs1 and evs2
SameEntriesBut(evs1, evs2, keys) ==
    \A e \in BagToSet(evs1) \cup BagToSet(evs2) :
        e.entity_key \notin keys => CopiesIn(e, evs1) = CopiesIn(e, evs2)

\* the call just made was schedule(d, key) or schedule_now(key) by the host
HostScheduled(key) ==
    last'.op \in {"schedule", "schedule_now"} /\ last'.key = Some(key)

\* the call just made was a step in which another task activated key
ActivatedByOther(key) ==
    /\ last'.op = "step" /\ last'.popped # None /\ last'.action # None
    /\ last'.popped[1].entity_key # key
    /\ \/ last'.action[1].kind = "ActivateOne" /\ last'.action[1].key = key
       \/ /\ last'.action[1].kind = "ActivateMany"
          /\ \E i \in 1 .. Len(last'.action[1].keys) : last'.action[1].keys[i] = key

\* a handle with no pending entry gets one only by being scheduled by the
\* host or activated by another task
PendingOnlyByScheduling ==
    \A key \in Keys :
        (~HasEntry(events, key) /\ HasEntry(events', key))
            => (HostScheduled(key) \/ ActivatedByOther(key))

\* a pop, and so a resumption by step, takes an entry that was pending
PopsOnlyPending == Popped => BagIn(last'.popped[1], events)

(***************************************************************************)
(* C1: over every interleaving of schedule, schedule_now, remove, pop and  *)
(* step, each pop returns an entry that was pending and whose time is      *)
(* minimal among the pending entries, its time is not earlier than that of *)
(* the entry popped before it, and the clock right after the pop is the    *)
(* popped entry's time.                                                    *)
(***************************************************************************)
C1_PopOrder ==
    [][Popped =>
          LET e == last'.popped[1]
          IN  /\ BagIn(e, events)
              /\ \A o \in BagToSet(events) : e.time <= o.time
              /\ pops # << >> => pops[Len(pops)] <= e.time
              /\ clock' = e.time]_vars

\* a pop that followed an earlier pop of an earlier entry, with entries left
C1_Witness ==
    /\ last.op = "pop" /\ last.popped # None
    /\ Len(pops) = 2 /\ pops[1] < pops[2]
    /\ last.popped[1].time = pops[2]
    /\ events # EmptyBag

(***************************************************************************)
(* C2: the clock never decreases, and only a pop that returns an entry     *)
(* changes it: schedule, schedule_now, remove, add_generator and a pop on  *)
(* an empty queue leave it as it was.                                      *)
(***************************************************************************)
C2_ClockMonotonic ==
    [][/\ clock' >= clock
       /\ clock' # clock => Popped]_vars

\* a pop on the empty queue after the clock has advanced
C2_Witness ==
    /\ last.op = "pop" /\ last.ret = "None"
    /\ clock > 0

(***************************************************************************)
(* C3: in every reachable state the scheduler holds at most one pending    *)
(* entry for any handle.                                                   *)
(***************************************************************************)
C3_OneEntryPerHandle ==
    \A key \in Keys :
        /\ Cardinality(EntriesOf(events, key)) <= 1
        /\ \A e \in EntriesOf(events, key) : CopiesIn(e, events) = 1

\* schedule_now was called on a handle pending at a later time
C3_Witness ==
    /\ last.op = "schedule_now"
    /\ \E e \in EntriesOf(events, last.key[1]) : e.time > clock

(***************************************************************************)
(* C4: schedule(d, K) and schedule_now(K) on a handle K that is pending    *)
(* leave the pending entries and the clock as they were, whatever d is;    *)
(* on a handle that is not pending they add the one entry (clock + d, K)   *)
(* and nothing else.                                                       *)
(***************************************************************************)
C4_ScheduleEffect ==
    [][last'.op \in {"schedule", "schedule_now"} =>
          LET K == last'.key[1]
              d == last'.time
          IN  /\ clock' = clock
              /\ IF HasEntry(events, K)
                 THEN events' = events
                 ELSE /\ OnlyEntry(events', K, clock + d)
                      /\ SameEntriesBut(events, events', {K})]_vars

\* K pending at a later time was scheduled again for an earlier one
C4_Witness ==
    /\ last.op = "schedule" /\ last.time > 0
    /\ \E e \in EntriesOf(events, last.key[1]) : e.time > clock + last.time

(***************************************************************************)
(* C5: Scheduler::remove(K) returns true exactly when K had a pending      *)
(* entry.  After a true removal K has no entry, so no pop returns K until  *)
(* K is scheduled again (pops take pending entries only, and K gets an     *)
(* entry only by being scheduled), and the entries of the other handles    *)
(* and the clock are as before; a false removal changes nothing.           *)
(***************************************************************************)
C5_Remove ==
    [][/\ last'.op = "remove" =>
             LET K == last'.key[1]
             IN  /\ last'.ret = "true" <=> HasEntry(events, K)
                 /\ clock' = clock
                 /\ ~HasEntry(events', K)
                 /\ SameEntriesBut(events, events', {K})
                 /\ last'.ret = "false" => events' = events
       /\ PopsOnlyPending
       /\ PendingOnlyByScheduling]_vars

\* a true removal that left other entries pending
C5_Witness ==
    /\ last.op = "remove" /\ last.ret = "true"
    /\ events # EmptyBag
    /\ clock > 0

(***************************************************************************)
(* C6: the handshake of examples/simple_model.rs run with a limit of 60 s  *)
(* never panics, its entities are resumed after a Hold at 5, 10, .. and at *)
(* no other time, and when run_with_limit returns there were exactly 12    *)
(* such resumptions, the last at 60, and the clock is 60.                  *)
(***************************************************************************)
C6_Handshake ==
    /\ failure = "none"
    /\ Len(wakeups) <= 12
    /\ \A i \in 1 .. Len(wakeups) : wakeups[i] = 5 * i
    /\ host.pc = "done" => (Len(wakeups) = 12 /\ clock = 60)

\* run_with_limit has returned
C6_Witness ==
    /\ host.pc = "done"
    /\ Len(wakeups) = 12
    /\ last.op = "time"

(***************************************************************************)
(* Steps of the orchestrator.                                              *)
(***************************************************************************)
\* the call just made was a step in which the resumed task yielded kind
StepYielded(kind) ==
    /\ last'.op = "step" /\ last'.popped # None /\ last'.action # None
    /\ last'.action[1].kind = kind

\* the last call was a step that returned and in which the task yielded kind
StepDone(kind) ==
    /\ last.op = "step" /\ last.popped # None /\ last.action # None
    /\ last.action[1].kind = kind
    /\ last.ret = "Advance"

IsActive(cont, key) == Container_get_state(cont, key) = Some("Active")
IsPassive(cont, key) == Container_get_state(cont, key) = Some("Passive")

\* the flags of all tasks but those in keys are the same in cont1 and cont2
SameFlagsBut(cont1, cont2, keys) ==
    \A k \in Keys \ keys : Container_get_state(cont1, k) = Container_get_state(cont2, k)

\* what is pending while the popped task runs
AfterPop == events (-) SetToBag({last'.popped[1]})

(***************************************************************************)
(* C7, as claimed: when an Active task T yields ActivateOne(U), the step   *)
(* panics if U is Active; if U is Passive, then after the step U is Active *)
(* and has a pending entry at the current clock time, and so has T.        *)
(***************************************************************************)
C7_AsClaimed ==
    [][(StepYielded("ActivateOne") /\ IsActive(inner, last'.popped[1].entity_key)) =>
          LET T == last'.popped[1].entity_key
              U == last'.action[1].key
          IN  /\ IsActive(inner, U) => failure' # "none"
              /\ IsPassive(inner, U) =>
                    /\ failure' = "none"
                    /\ IsActive(inner', U)
                    /\ BagIn(EventEntry(clock', U), events')
                    /\ BagIn(EventEntry(clock', T), events')]_vars

(***************************************************************************)
(* C7, amended: when an Active task T yields ActivateOne(U), the step      *)
(* panics if U is Active; if U is Passive, then after the step U is Active *)
(* and T has a pending entry at the current clock time, and U has one      *)
(* pending entry: at the current clock time if it had none, and the entry  *)
(* it had, at that entry's time, if it had one.                            *)
(***************************************************************************)
C7_ActivateOne ==
    [][(StepYielded("ActivateOne") /\ IsActive(inner, last'.popped[1].entity_key)) =>
          LET T == last'.popped[1].entity_key
              U == last'.action[1].key
          IN  /\ IsActive(inner, U) => failure' # "none"
              /\ IsPassive(inner, U) =>
                    /\ failure' = "none"
                    /\ IsActive(inner', U)
                    /\ OnlyEntry(events', T, clock')
                    /\ IF HasEntry(AfterPop, U)
                       THEN /\ EntriesOf(events', U) = EntriesOf(AfterPop, U)
                            /\ \A e \in EntriesOf(events', U) : CopiesIn(e, events') = 1
                       ELSE OnlyEntry(events', U, clock')]_vars

\* an ActivateOne whose Passive target kept the later entry it already had
C7_Witness ==
    /\ StepDone("ActivateOne")
    /\ IsActive(inner, last.action[1].key)
    /\ \E e \in EntriesOf(events, last.action[1].key) : e.time > clock
    /\ BagIn(EventEntry(clock, last.popped[1].entity_key), events)

(***************************************************************************)
(* C8: when an Active task T, resumed by step at clock time now, yields    *)
(* Hold(d), the step returns with T still Active and with exactly one      *)
(* pending entry for T, at now + d; the flag and the entries of every      *)
(* other task are as before.                                               *)
(***************************************************************************)
C8_Hold ==
    [][(StepYielded("Hold") /\ IsActive(inner, last'.popped[1].entity_key)) =>
          LET T == last'.popped[1].entity_key
              d == last'.action[1].duration
              now == last'.popped[1].time
          IN  /\ failure' = "none"
              /\ clock' = now
              /\ IsActive(inner', T)
              /\ OnlyEntry(events', T, now + d)
              /\ SameFlagsBut(inner, inner', {T})
              /\ SameEntriesBut(events, events', {T})]_vars

\* a Hold of a positive duration, at a positive time, beside another entry
C8_Witness ==
    /\ StepDone("Hold")
    /\ last.action[1].duration > 0
    /\ clock > 0
    /\ BagIn(EventEntry(clock + last.action[1].duration, last.popped[1].entity_key), events)
    /\ \E e \in BagToSet(events) : e.entity_key # last.popped[1].entity_key

(***************************************************************************)
(* C9: when an Active task T yields Passivate, the step returns with T     *)
(* Passive and without a pending entry for T; T is not resumed again until *)
(* another task activates it or the host schedules it (a step resumes      *)
(* pending entries only, and a handle gets an entry only in those ways).   *)
(***************************************************************************)
C9_Passivate ==
    [][/\ (StepYielded("Passivate") /\ IsActive(inner, last'.popped[1].entity_key)) =>
             LET T == last'.popped[1].entity_key
             IN  /\ failure' = "none"
                 /\ IsPassive(inner', T)
                 /\ ~HasEntry(events', T)
       /\ PopsOnlyPending
       /\ PendingOnlyByScheduling]_vars

\* a task has passivated while another entry is pending
C9_Witness ==
    /\ StepDone("Passivate")
    /\ IsPassive(inner, last.popped[1].entity_key)
    /\ ~HasEntry(events, last.popped[1].entity_key)
    /\ events # EmptyBag

(***************************************************************************)
(* C10: when an Active task T yields Cancel(U) and U is Active with a      *)
(* pending entry, the step returns with U Passive and without a pending    *)
(* entry for U, so that U is not resumed at the time it was scheduled for  *)
(* (a step resumes pending entries only), and with an entry for T at the   *)
(* current clock time.                                                     *)
(***************************************************************************)
C10_Cancel ==
    [][/\ (/\ StepYielded("Cancel")
           /\ IsActive(inner, last'.popped[1].entity_key)
           /\ IsActive(inner, last'.action[1].key)
           /\ HasEntry(AfterPop, last'.action[1].key)) =>
             LET T == last'.popped[1].entity_key
                 U == last'.action[1].key
             IN  /\ failure' = "none"
                 /\ IsPassive(inner', U)
                 /\ ~HasEntry(events', U)
                 /\ BagIn(EventEntry(clock', T), events')
       /\ PopsOnlyPending]_vars

\* a task has cancelled another one
C10_Witness ==
    /\ StepDone("Cancel")
    /\ last.action[1].key # last.popped[1].entity_key
    /\ IsPassive(inner, last.action[1].key)
    /\ ~HasEntry(events, last.action[1].key)
    /\ BagIn(EventEntry(clock, last.popped[1].entity_key), events)

(***************************************************************************)
(* ActivateMany.                                                           *)
(***************************************************************************)
Range(seq) == {seq[i] : i \in 1 .. Len(seq)}

Distinct(seq) == \A i, j \in 1 .. Len(seq) : i # j => seq[i] # seq[j]

\* the handles add_generator has returned
Registered(cont) == 0 .. (Len(cont) - 1)

\* the flags of all tasks but those in keys are the same in cont1 and cont2
SameFlagsOutside(cont1, cont2, keys) ==
    \A k \in (Registered(cont1) \cup Registered(cont2)) \ keys :
        Container_get_state(cont1, k) = Container_get_state(cont2, k)

\* key has in evs2 the entries it has in evs1, each once
KeptEntries(evs1, evs2, key) ==
    /\ EntriesOf(evs2, key) = EntriesOf(evs1, key)
    /\ \A e \in EntriesOf(evs2, key) : CopiesIn(e, evs2) = 1

\* the call just made was a step in which an Active task yielded
\* ActivateMany with a list of distinct handles of Passive tasks
ManyPassive ==
    /\ StepYielded("ActivateMany")
    /\ IsActive(inner, last'.popped[1].entity_key)
    /\ Distinct(last'.action[1].keys)
    /\ \A U \in Range(last'.action[1].keys) : IsPassive(inner, U)

\* the target at position i of a list is not Passive when its turn comes:
\* it was not Passive before the step, or it stands earlier in the list
NotPassiveAt(cont, Us, i) ==
    ~IsPassive(cont, Us[i]) \/ \E j \in 1 .. (i - 1) : Us[j] = Us[i]

\* position i is the first such position
FirstNotPassive(cont, Us, i) ==
    NotPassiveAt(cont, Us, i) /\ \A j \in 1 .. (i - 1) : ~NotPassiveAt(cont, Us, j)

(***************************************************************************)
(* C11, as claimed: when an Active task T yields ActivateMany(Us) and the  *)
(* handles in Us are distinct and all Passive, then after the step every U *)
(* in Us is Active and has a pending entry at the current clock time, and  *)
(* T has exactly one pending entry, at the current clock time; with an     *)
(* empty list nothing changes but T's entry.                               *)
(***************************************************************************)
C11_AsClaimed ==
    [][ManyPassive =>
          LET T == last'.popped[1].entity_key
              Us == last'.action[1].keys
          IN  /\ failure' = "none"
              /\ \A U \in Range(Us) :
                    IsActive(inner', U) /\ BagIn(EventEntry(clock', U), events')
              /\ OnlyEntry(events', T, clock')
              /\ Us = << >> =>
                    /\ SameFlagsOutside(inner, inner', {})
                    /\ SameEntriesBut(events, events', {T})]_vars

(***************************************************************************)
(* C11, amended: when an Active task T yields ActivateMany(Us) and the     *)
(* handles in Us are distinct and all Passive, then after the step every U *)
(* in Us is Active with one pending entry (at the current clock time if it *)
(* had none, and the entry it had if it had one), T is Active with exactly *)
(* one pending entry, at the current clock time, and the flags and entries *)
(* of all other tasks are as before; with an empty list nothing changes    *)
(* but T's entry.  The list is walked in its order: when some target is    *)
(* not Passive at its turn, the step fails with the targets listed before  *)
(* the first such one Active and the flags of all other tasks as before.   *)
(***************************************************************************)
C11_ActivateMany ==
    [][/\ ManyPassive =>
             LET T == last'.popped[1].entity_key
                 Us == last'.action[1].keys
             IN  /\ failure' = "none"
                 /\ \A U \in Range(Us) :
                       /\ IsActive(inner', U)
                       /\ IF HasEntry(AfterPop, U)
                          THEN KeptEntries(AfterPop, events', U)
                          ELSE OnlyEntry(events', U, clock')
                 /\ IsActive(inner', T)
                 /\ OnlyEntry(events', T, clock')
                 /\ SameFlagsOutside(inner, inner', Range(Us))
                 /\ SameEntriesBut(events, events', {T} \cup Range(Us))
                 /\ Us = << >> =>
                       /\ SameFlagsOutside(inner, inner', {})
                       /\ SameEntriesBut(events, events', {T})
       /\ (StepYielded("ActivateMany") /\ IsActive(inner, last'.popped[1].entity_key)) =>
             LET T == last'.popped[1].entity_key
                 Us == last'.action[1].keys
             IN  \A i \in 1 .. Len(Us) :
                    FirstNotPassive(inner, Us, i) =>
                       LET before == {Us[j] : j \in 1 .. (i - 1)}
                       IN  /\ failure' # "none"
                           /\ \A U \in before : IsActive(inner', U)
                           /\ SameFlagsOutside(inner, inner', before)]_vars

\* two Passive tasks were activated by one ActivateMany: the first listed
\* kept the later entry it had, the second got its entry at the clock time
C11_Witness ==
    /\ StepDone("ActivateMany")
    /\ Len(last.action[1].keys) = 2
    /\ last.action[1].keys[1] # last.action[1].keys[2]
    /\ \A U \in Range(last.action[1].keys) : IsActive(inner, U)
    /\ \E e \in EntriesOf(events, last.action[1].keys[1]) : e.time > clock
    /\ OnlyEntry(events, last.action[1].keys[2], clock)
    /\ OnlyEntry(events, last.popped[1].entity_key, clock)

(***************************************************************************)
(* Completion and empty slots.                                             *)
(***************************************************************************)
\* the call just made was a step in which the resumed task completed
StepCompleted ==
    /\ last'.op = "step" /\ last'.popped # None /\ last'.action = None
    /\ last'.ret = "Advance"

\* key was returned by add_generator and its slot has been emptied
Freed(cont, key) == InRange(cont, key) /\ Container_get(cont, key) = None

\* the call just made was a step that popped an entry of key
StepPopped(key) ==
    last'.op = "step" /\ last'.popped # None /\ last'.popped[1].entity_key = key

NotResumed == "entities shouldn't be removed from the container"

(***************************************************************************)
(* C12: a step in which the resumed task T completes returns with T's slot *)
(* empty, so that entity_state(T) is None, and without a pending entry for *)
(* T.  Once the slot of a handle is empty it stays empty and entity_state  *)
(* gives None for it, add_generator does not return the handle, the handle *)
(* gets a pending entry only when the host schedules it, and a step that   *)
(* pops an entry of it fails without resuming anything; steps pop pending  *)
(* entries only.                                                           *)
(***************************************************************************)
C12_Complete ==
    [][/\ StepCompleted =>
             LET T == last'.popped[1].entity_key
             IN  /\ ~Freed(inner, T) /\ Freed(inner', T)
                 /\ Container_get_state(inner', T) = None
                 /\ ~HasEntry(events', T)
       /\ \A key \in Keys :
             Freed(inner, key) =>
                /\ Freed(inner', key)
                /\ Container_get_state(inner', key) = None
                /\ last'.op = "add_generator" => last'.key # Some(key)
                /\ (~HasEntry(events, key) /\ HasEntry(events', key)) => HostScheduled(key)
                /\ StepPopped(key) => (failure' = NotResumed /\ inner' = inner)
       /\ PopsOnlyPending]_vars

\* the host scheduled the handle of a completed task and a step popped the
\* entry and failed; a generator with a later handle is registered
C12_Witness ==
    /\ last.op = "step" /\ last.popped # None
    /\ Freed(inner, last.popped[1].entity_key)
    /\ failure = NotResumed
    /\ Len(inner) > last.popped[1].entity_key + 1

C14_Step ==
    [][last'.op = "step" =>
          /\ last'.ret = "Break" <=> events = EmptyBag
          /\ last'.ret = "Break" =>
                /\ last'.popped = None
                /\ UNCHANGED <<events, clock, inner, cell, failure>>
          /\ events # EmptyBag =>
                /\ last'.popped # None
                /\ LET e == last'.popped[1]
                       T == last'.popped[1].entity_key
                   IN  /\ BagIn(e, events)
                       /\ \A o \in BagToSet(events) : e.time <= o.time
                       /\ clock' = e.time
                       /\ Len(inner') = Len(inner)
                       /\ \A k \in Registered(inner) \ {T} :
                             /\ Container_get(inner', k) = None <=> Container_get(inner, k) = None
                             /\ Container_get(inner', k) # None =>
                                   Container_get(inner', k)[1].gen = Container_get(inner, k)[1].gen
                       /\ failure' = "none" =>
                             /\ last'.ret = "Advance"
                             /\ ~Freed(inner, T)
                             /\ last'.action = None <=> Freed(inner', T)
                       /\ failure' # "none" => last'.ret = "panic"]_vars

\* a step returned Break after earlier steps had advanced the clock
C14_Witness ==
    /\ last.op = "step" /\ last.ret = "Break"
    /\ events = EmptyBag
    /\ clock > 0
    /\ \E k \in Registered(inner) : Freed(inner, k)
    /\ \E k \in Registered(inner) : ~Freed(inner, k)

(***************************************************************************)
(* C15: run_with_limit(limit) calls step first, and again after each step  *)
(* that returned Advance with the clock then below limit; the clock is     *)
(* read after each such step and nothing is changed by reading it.  It     *)
(* returns when step returns Break, the queue being empty, or when the     *)
(* clock read is at or past limit.  So an event is processed only as the   *)
(* first of the run or with the clock below limit before it: none follows  *)
(* the first event at or past limit, which is itself carried out (the task *)
(* that holds is rescheduled, the one that completes leaves its slot),     *)
(* whatever else is pending at that time.                                  *)
(***************************************************************************)
C15_RunWithLimit ==
    [][/\ last'.op = "step" =>
             /\ host.pc = "run_step"
             /\ last.op = "run_with_limit" \/ (last.op = "time" /\ clock < host.limit)
             /\ last'.ret = "Break" => (events = EmptyBag /\ host'.pc = "done")
             /\ last'.ret = "Advance" => host'.pc = "run_check"
             /\ (last'.ret = "Advance" /\ clock' >= host.limit) =>
                   LET T == last'.popped[1].entity_key
                   IN  IF last'.action = None
                       THEN Freed(inner', T)
                       ELSE OnlyEntry(events', T,
                                      clock' + last'.action[1].duration)
       /\ last'.op = "time" =>
             /\ host.pc = "run_check" /\ last.op = "step" /\ last.ret = "Advance"
             /\ host'.pc = IF clock >= host.limit THEN "done" ELSE "run_step"
             /\ UNCHANGED <<events, clock, inner, cell, failure>>
       /\ host'.pc = "done" => (events' = EmptyBag \/ clock' >= host.limit)
       /\ host.pc = "done" => UNCHANGED vars]_vars

\* run_with_limit returned after the first event at its limit: the task that
\* held is pending again and the event of another task at that time is left
C15_Witness ==
    /\ host.pc = "done" /\ last.op = "time"
    /\ host.limit > 0 /\ clock = host.limit
    /\ pops # << >> /\ pops[Len(pops)] = clock
    /\ Cardinality({e \in BagToSet(events) : e.time = clock}) >= 2

(***************************************************************************)
(* run_until_empty.                                                        *)
(***************************************************************************)
\* run_until_empty has just been called
UntilCalled == last.op = "run_until_empty"

\* every registered task completes: its generator is a finite one, and it
\* is pending, so that it is resumed until it completes
AllComplete ==
    \A k \in Registered(inner) :
        /\ Container_get(inner, k) # None
        /\ Container_get(inner, k)[1].gen.prog = "finite"
        /\ HasEntry(events, k)

\* a pending task holds for ever
HoldsForever ==
    \E k \in Registered(inner) :
        /\ Container_get(inner, k) # None
        /\ Container_get(inner, k)[1].gen.prog = "infinite"
        /\ HasEntry(events, k)

\* no slot of the registry is occupied
NoTaskLeft == \A k \in Registered(inner) : Freed(inner, k)

\* the clock is the time of the last event processed, if one was
ClockOfLastEvent == IF pops = << >> THEN clock = 0 ELSE clock = pops[Len(pops)]

(***************************************************************************)
(* C16: when run_until_empty is called on a model in which every task      *)
(* completes (each registered generator is finite and pending), it         *)
(* returns, and at the return the queue is empty, the clock is the time of *)
(* the last processed event and no slot of the registry is occupied; when  *)
(* it is called on a model with a pending task that holds for ever it      *)
(* never returns; and whenever it returns the queue is empty and the clock *)
(* is the time of the last processed event.                                *)
(***************************************************************************)
C16_RunUntilEmpty ==
    /\ [](UntilCalled /\ AllComplete =>
             <>(/\ host.pc = "done" /\ failure = "none"
                /\ events = EmptyBag /\ ClockOfLastEvent /\ NoTaskLeft))
    /\ [](UntilCalled /\ HoldsForever => [](host.pc # "done"))
    /\ [](host.pc = "done" => (events = EmptyBag /\ ClockOfLastEvent))

\* run_until_empty returned from a model of two tasks that completed, the
\* last event at a time after 0
C16_Witness ==
    /\ host.pc = "done" /\ last.op = "step" /\ last.ret = "Break"
    /\ Len(inner) >= 2 /\ NoTaskLeft
    /\ events = EmptyBag
    /\ clock > 0 /\ pops = <<0, clock>>

(***************************************************************************)
(* C17: a step that pops the entry of a handle whose slot is empty (a      *)
(* handle add_generator never returned, the dummy among them, or the       *)
(* handle of a task removed at its completion) fails in                    *)
(* Container::step_with: it does not return, no generator is resumed, and  *)
(* the entry is gone from the queue with the clock at its time.  The step  *)
(* fails in this way in no other case.                                     *)
(***************************************************************************)
C17_EmptySlot ==
    [][(last'.op = "step" /\ last'.popped # None) =>
          LET e == last'.popped[1]
              T == last'.popped[1].entity_key
          IN  /\ Container_get(inner, T) = None =>
                    /\ failure' = NotResumed
                    /\ last'.ret = "panic" /\ last'.action = None
                    /\ inner' = inner /\ cell' = cell
                    /\ events' = AfterPop /\ clock' = e.time
              /\ failure' = NotResumed =>
                    (T = Key_dummy \/ ~InRange(inner, T) \/ Freed(inner, T))]_vars

\* a step popped the entry of the dummy handle and failed, with a completed
\* task's handle and a handle never returned pending too
C17_Witness ==
    /\ last.op = "step" /\ last.popped # None
    /\ last.popped[1].entity_key = Key_dummy
    /\ failure = NotResumed
    /\ \E k \in Keys : Freed(inner, k) /\ HasEntry(events, k)
    /\ \E k \in Keys : ~InRange(inner, k) /\ HasEntry(events, k)

(***************************************************************************)
(* The State store.                                                        *)
(***************************************************************************)
\* the call just made left every slot but that of id as it was
OtherSlotsKept(id) ==
    /\ Len(cell') >= Len(cell)
    /\ \A j \in 1 .. Len(cell) : j # id + 1 => cell'[j] = cell[j]

\* the call just made was get, get_mut or remove
StoreAccess == last'.op \in {"get", "get_mut", "remove"}

(***************************************************************************)
(* C18: insert(v) returns a key with which get gives Some(v), and leaves   *)
(* the other slots as they were.  get, get_mut and remove with a key that  *)
(* insert returned for v do not fail; they return Some(v) as long as       *)
(* remove has not been called with the key, and None after that; get and   *)
(* get_mut leave the store as it was, remove leaves the slot of the key    *)
(* empty and the other slots as they were.                                 *)
(***************************************************************************)
C18_RoundTrip ==
    [][/\ last'.op = "insert" =>
             LET key == last'.key[1]
                 v == last'.value[1]
             IN  /\ failure' = "none"
                 /\ State_get(cell', key) = [ret |-> Some(v), panic |-> FALSE]
                 /\ OtherSlotsKept(key.id)
       /\ \A i \in DOMAIN host.issued :
             (StoreAccess /\ last'.key = Some(host.issued[i].key)) =>
                LET key == host.issued[i].key
                    v == host.issued[i].value
                IN  /\ failure' = "none" /\ ~last'.panic
                    /\ last'.ret = IF host.issued[i].removed THEN None ELSE Some(v)
                    /\ last'.op \in {"get", "get_mut"} => cell' = cell
                    /\ last'.op = "remove" => State_slot(cell', key) = None
                    /\ OtherSlotsKept(key.id)]_vars

\* get gave None for a key that had been removed, with the value of another
\* key still in the store
C18_Witness ==
    /\ last.op = "get" /\ last.ret = None /\ ~last.panic
    /\ \E i, j \in DOMAIN host.issued :
          /\ last.key = Some(host.issued[i].key) /\ host.issued[i].removed
          /\ ~host.issued[j].removed
          /\ State_get(cell, host.issued[j].key).ret = Some(host.issued[j].value)

(***************************************************************************)
(* C19: the ids of the keys insert has returned are all different, also    *)
(* when slots were cleared by remove between the inserts: the key of the   *)
(* i-th insert has the id i - 1.                                           *)
(***************************************************************************)
C19_FreshKeys ==
    /\ \A i, j \in DOMAIN host.issued :
          i # j => host.issued[i].key.id # host.issued[j].key.id
    /\ \A i \in DOMAIN host.issued : host.issued[i].key.id = i - 1

\* an insert that followed the removal of the value inserted before it
C19_Witness ==
    /\ last.op = "insert"
    /\ Len(host.issued) >= 2
    /\ host.issued[Len(host.issued) - 1].removed
    /\ State_slot(cell, host.issued[Len(host.issued) - 1].key) = None

(***************************************************************************)
(* C20: get, get_mut and remove with a key whose slot holds a value of     *)
(* another type than the key's fail; a call that returns gives None only   *)
(* for a slot that is empty or out of range, and a value only of the       *)
(* key's type.                                                             *)
(***************************************************************************)
C20_TypeMismatch ==
    [][StoreAccess =>
          LET key == last'.key[1]
              slot == State_slot(cell, last'.key[1])
          IN  /\ (slot # None /\ slot[1].ty # key.ty) =>
                    (last'.panic /\ failure' # "none")
              /\ last'.panic <=> failure' # "none"
              /\ ~last'.panic =>
                    /\ last'.ret = None => slot = None
                    /\ last'.ret # None => (last'.ret = slot /\ last'.ret[1].ty = key.ty)]_vars

\* get_mut failed on a key of another type than the value in its slot
C20_Witness ==
    /\ last.op = "get_mut" /\ last.panic
    /\ failure = "Ensured by the key type."
    /\ State_slot(cell, last.key[1]) # None
    /\ State_slot(cell, last.key[1])[1].ty # last.key[1].ty

(***************************************************************************)
(* C21: add_generator returns the handle whose id is the number of calls   *)
(* of add_generator made before it, whatever tasks have completed or been  *)
(* taken out since; it appends one slot, in which the new task is Active,  *)
(* leaves the other slots as they were, and leaves the queue and the clock *)
(* as they were, so that it schedules nothing.  The length of the registry *)
(* is the number of calls of add_generator made so far.                    *)
(***************************************************************************)
C21_AddGenerator ==
    [][/\ last'.op = "add_generator" =>
             LET key == last'.key[1]
             IN  /\ key = host.adds
                 /\ Len(inner') = Len(inner) + 1
                 /\ IsActive(inner', key)
                 /\ \A k \in Registered(inner) :
                       Container_get(inner', k) = Container_get(inner, k)
                 /\ events' = events /\ clock' = clock
                 /\ failure' = "none"
       /\ Len(inner') = host'.adds]_vars

\* an add_generator that followed the resumption of the first task and the
\* emptying of its slot
C21_Witness ==
    /\ last.op = "add_generator"
    /\ last.key = Some(1) /\ Len(inner) = 2
    /\ Freed(inner, 0)
    /\ IsActive(inner, 1)
    /\ ~HasEntry(events, 1)
    /\ pops # << >>

(***************************************************************************)
(* The State shared through the cell.                                      *)
(***************************************************************************)
\* the call just made was a step whose task took the State out of the cell
SharedTook == last'.op = "step" /\ last'.popped # None /\ last'.seen # None

\* the State that task took
Seen == last'.seen[1]

\* get, get_mut and remove with key give ret on store, and do not fail
Gives(store, key, ret) ==
    /\ State_get(store, key) = [ret |-> ret, panic |-> FALSE]
    /\ State_get_mut(store, key) = [ret |-> ret, panic |-> FALSE]
    /\ State_remove(store, key).ret = ret /\ ~State_remove(store, key).panic

\* store holds the values inserted and not yet removed
ShowsIssued(store, issued) ==
    \A i \in DOMAIN issued :
        Gives(store, issued[i].key, IF issued[i].removed THEN None ELSE Some(issued[i].value))

\* get, get_mut and remove give None on store for every key issued
AllNone(store, issued) == \A i \in DOMAIN issued : Gives(store, issued[i].key, None)

NotScheduled == "send Cancel and it wasn't scheduled"

(***************************************************************************)
(* C23: in the runs of add_generator, schedule, schedule_now and step,     *)
(* whenever an Active task T yields Cancel(U) and U is found Active, U has *)
(* a pending entry when the scheduler is asked to remove it (T's own after *)
(* its rescheduling, or the one U had), and the step does not fail with    *)
(* "wasn't scheduled".                                                     *)
(***************************************************************************)
C23_CancelFindsEntry ==
    [][(/\ StepYielded("Cancel")
        /\ IsActive(inner, last'.popped[1].entity_key)
        /\ IsActive(inner, last'.action[1].key)) =>
          LET T == last'.popped[1].entity_key
              U == last'.action[1].key
          IN  /\ U = T \/ HasEntry(AfterPop, U)
              /\ failure' # NotScheduled]_vars

(***************************************************************************)
(* The frame of a step.                                                    *)
(***************************************************************************)
\* the handles the action a names
Targets(a) ==
    IF a = None THEN {}
    ELSE IF a[1].kind \in {"ActivateOne", "Cancel"} THEN {a[1].key}
    ELSE IF a[1].kind = "ActivateMany" THEN Range(a[1].keys)
    ELSE {}

(***************************************************************************)
(* C24: a step that resumes task T changes the flag and the pending entry  *)
(* of T and of the handles named in the action T yields, and of no other:  *)
(* whether T yields Hold, Passivate, ActivateOne, ActivateMany or Cancel,  *)
(* or completes, and whether the step returns or fails, every other task   *)
(* has the flag it had, every other slot is empty or occupied as it was,   *)
(* and every other handle has the pending entries it had, at their times.  *)
(***************************************************************************)
C24_Frame ==
    [][(last'.op = "step" /\ last'.popped # None) =>
          LET T == last'.popped[1].entity_key
              touched == {T} \cup Targets(last'.action)
          IN  /\ SameFlagsOutside(inner, inner', touched)
              /\ SameEntriesBut(events, events', touched)
              /\ Len(inner') = Len(inner)]_vars

\* the actor cancelled one sleeper while another sleeper, Passive, was pending
\* at a later time: that one is Passive and pending at that time still
C24_Witness ==
    /\ StepDone("Cancel")
    /\ last.popped[1].entity_key # last.action[1].key
    /\ \E k \in ManyKeys \ {last.popped[1].entity_key, last.action[1].key} :
          /\ IsPassive(inner, k)
          /\ \E e \in EntriesOf(events, k) : e.time > clock

(***************************************************************************)
(* Passive tasks.                                                          *)
(***************************************************************************)
PassiveActed ==
    {"A passive entity received a hold command",
     "A passive entity received a passivate command",
     "A passive entity sended an activate",
     "A passive entity did a Cancel"}

(***************************************************************************)
(* C25: when the host calls schedule and schedule_now on Active tasks      *)
(* only, no Passive task has a pending entry in any reachable state, no    *)
(* step resumes a Passive task, and no step fails because a Passive task   *)
(* yielded Hold, Passivate, ActivateOne, ActivateMany or Cancel.           *)
(***************************************************************************)
C25_PassiveNotPending ==
    /\ [](\A k \in Keys : IsPassive(inner, k) => ~HasEntry(events, k))
    /\ [](failure \notin PassiveActed)
    /\ [][(last'.op = "step" /\ last'.popped # None) =>
             ~IsPassive(inner, last'.popped[1].entity_key)]_vars

\* a step resumed a task at a later time while another task was Passive,
\* without a pending entry
C25_Witness ==
    /\ last.op = "step" /\ last.popped # None /\ last.ret = "Advance"
    /\ clock > 0
    /\ \E k \in Keys \ {last.popped[1].entity_key} :
          IsPassive(inner, k) /\ ~HasEntry(events, k)
    /\ IsActive(inner, last.popped[1].entity_key)

(***************************************************************************)
(* C26: in every reachable state every pending entry has a time that is    *)
(* not earlier than the clock.                                             *)
(***************************************************************************)
C26_NoEntryInThePast == \A e \in BagToSet(events) : e.time >= clock

\* a pop has advanced the clock to the time of an entry, with an entry at
\* that time and a later one pending
C26_Witness ==
    /\ last.op \in {"pop", "step"} /\ last.popped # None
    /\ clock > 0 /\ last.popped[1].time = clock
    /\ \E e \in BagToSet(events) : e.time = clock
    /\ \E e \in BagToSet(events) : e.time > clock

(***************************************************************************)
(* A task that cancels itself.                                             *)
(***************************************************************************)
\* the call just made was a step in which an Active task yielded Cancel of
\* its own handle
SelfCancel ==
    /\ StepYielded("Cancel")
    /\ IsActive(inner, last'.popped[1].entity_key)
    /\ last'.action[1].key = last'.popped[1].entity_key

\* the effect of that step: it returns, with the task Passive and without a
\* pending entry, and with the entries of the other handles as they were
SelfCancelEffect ==
    LET T == last'.popped[1].entity_key
    IN  /\ failure' = "none" /\ last'.ret = "Advance"
        /\ IsPassive(inner', T)
        /\ ~HasEntry(events', T)
        /\ SameEntriesBut(events, events', {T})
        /\ clock' = last'.popped[1].time

(***************************************************************************)
(* C27, as claimed: a step in which an Active task T yields Cancel(T)      *)
(* returns with T Passive and without a pending entry for T, and no later  *)
(* step resumes T unless another task has activated it since.              *)
(***************************************************************************)
C27_AsClaimed ==
    [][/\ SelfCancel => SelfCancelEffect
       /\ \A T \in host.self : ~StepPopped(T)]_vars

(***************************************************************************)
(* C27, amended: a step in which an Active task T yields Cancel(T) returns *)
(* with T Passive and without a pending entry for T, and no later step     *)
(* resumes T unless another task has activated it or the host has          *)
(* scheduled its handle since; as long as neither has happened T is        *)
(* Passive and has no pending entry.                                       *)
(***************************************************************************)
C27_SelfCancel ==
    [][/\ SelfCancel => SelfCancelEffect
       /\ \A T \in host.self : StepPopped(T) => T \in host.sched
       /\ \A T \in host.self \ host.sched :
             IsPassive(inner, T) /\ ~HasEntry(events, T)]_vars

\* a task that had cancelled itself was resumed after the host had scheduled
\* its handle, at a later time
C27_Witness ==
    /\ last.op = "step" /\ last.popped # None
    /\ last.popped[1].entity_key \in host.self \cap host.sched
    /\ clock > 0
    /\ failure \in PassiveActed

(***************************************************************************)
(* ActivateMany with a repeated handle or with the handle of the yielding  *)
(* task.                                                                   *)
(***************************************************************************)
AlreadyActive == "tried to Activate but it was already active"

\* position i of the list Us yielded by T repeats an earlier handle or names T
Offends(T, Us, i) == Us[i] = T \/ \E j \in 1 .. (i - 1) : Us[j] = Us[i]

(***************************************************************************)
(* C28: when an Active task T yields ActivateMany(Us) and the first        *)
(* element of Us that is not Passive at its turn repeats an earlier handle *)
(* of the list or is T's own handle, the step fails with "tried to         *)
(* Activate ... but it was already active", and in the state it fails in   *)
(* every target listed before that element is Active and has a pending     *)
(* entry and T is Active with its one entry at the current clock time.     *)
(***************************************************************************)
C28_NoRollback ==
    [][(StepYielded("ActivateMany") /\ IsActive(inner, last'.popped[1].entity_key)) =>
          LET T == last'.popped[1].entity_key
              Us == last'.action[1].keys
          IN  \A i \in 1 .. Len(Us) :
                 (FirstNotPassive(inner, Us, i) /\ Offends(T, Us, i)) =>
                    /\ failure' = AlreadyActive
                    /\ last'.ret = "panic"
                    /\ \A j \in 1 .. (i - 1) :
                          IsActive(inner', Us[j]) /\ HasEntry(events', Us[j])
                    /\ IsActive(inner', T)
                    /\ OnlyEntry(events', T, clock')]_vars

\* a step failed on a list that names one Passive task twice: the task is
\* Active with an entry at the clock time, and so is the yielding task
C28_Witness ==
    /\ last.op = "step" /\ last.popped # None /\ last.action # None
    /\ failure = AlreadyActive
    /\ last.action[1].kind = "ActivateMany"
    /\ Len(last.action[1].keys) = 2
    /\ last.action[1].keys[1] = last.action[1].keys[2]
    /\ last.action[1].keys[1] # last.popped[1].entity_key
    /\ IsActive(inner, last.action[1].keys[1])
    /\ OnlyEntry(events, last.action[1].keys[1], clock)
    /\ OnlyEntry(events, last.popped[1].entity_key, clock)

(***************************************************************************)
(* run_with_limit called at or past its limit.                             *)
(***************************************************************************)
\* the call of run_with_limit was made with the clock at or past the limit
CalledLate == host.pc # "idle" /\ host.at >= host.limit

(***************************************************************************)
(* C29: a call of run_with_limit made with the clock at or past the limit  *)
(* and with a pending entry processes one event and returns: no step       *)
(* follows the first, and when the call has returned it has processed      *)
(* exactly one event.  A call made with an empty queue processes none.     *)
(***************************************************************************)
C29_OneEvent ==
    /\ (CalledLate /\ host.pending) =>
          /\ host.steps <= 1
          /\ host.pc = "run_step" => host.steps = 0
          /\ host.pc \in {"run_check", "done"} => host.steps = 1
    /\ (host.pc # "idle" /\ ~host.pending) =>
          /\ host.steps = 0
          /\ host.pc \in {"run_step", "done"}

\* a call made with the clock past the limit has returned after one event,
\* with other events still pending
C29_Witness ==
    /\ host.pc = "done" /\ host.pending
    /\ host.at > host.limit
    /\ host.steps = 1
    /\ last.op = "time"
    /\ events # EmptyBag

(***************************************************************************)
(* The handshake and the order of events of equal time.                    *)
(***************************************************************************)
\* the entries of the least pending time
Tied(evs) == {e \in BagToSet(evs) : \A o \in BagToSet(evs) : e.time <= o.time}

(***************************************************************************)
(* C30: in the handshake of examples/simple_model.rs run with a limit of   *)
(* 60 s, at every step each of the entries pending at the least time may   *)
(* be the one popped, and whichever are popped first the run reaches no    *)
(* failure and returns after 12 resumptions from a Hold with the clock at  *)
(* 60.                                                                     *)
(***************************************************************************)
C30_AnyTieOrder ==
    /\ failure = "none"
    /\ host.pc = "run_step" =>
          \A e \in Tied(events) : ENABLED (RunStep /\ last'.popped = Some(e))
    /\ host.pc = "done" => (Len(wakeups) = 12 /\ clock = LimitSecs)

\* after the start, entity_b was popped with entity_a pending at the same
\* time, the reverse of the order of their keys
C30_Witness ==
    /\ last.op = "step" /\ last.popped # None
    /\ clock > 0
    /\ last.popped[1] = EventEntry(clock, Main_b_key.key)
    /\ BagIn(EventEntry(clock, Main_a_key.key), events)
    /\ failure = "none"

(***************************************************************************)
(* The lengths of the State store and of the registry of tasks.            *)
(***************************************************************************)
\* the call just made took a value out of the store or a task out of the
\* registry: a remove that gave something, or a step in which the task
\* completed
TookOut ==
    \/ last'.op \in {"state_remove", "container_remove"} /\ last'.ret # "None"
    \/ StepCompleted

(***************************************************************************)
(* C31: len() of the State store is the number of calls of insert made so  *)
(* far and len() of the registry the number of calls of add_generator, and *)
(* is_empty() is false from the first such call on.  No call makes either  *)
(* length smaller; a remove and a step in which a task completes leave     *)
(* both lengths and both is_empty() as they were, and is_empty() is false  *)
(* after one that took a value or a task out.                              *)
(***************************************************************************)
C31_LenCountsSlots ==
    /\ [](/\ State_len(cell) = host.inserts
          /\ Container_len(inner) = host.adds
          /\ State_is_empty(cell) <=> host.inserts = 0
          /\ Container_is_empty(inner) <=> host.adds = 0)
    /\ [][/\ State_len(cell') >= State_len(cell)
          /\ Container_len(inner') >= Container_len(inner)
          /\ (last'.op \in {"state_remove", "container_remove"} \/ StepCompleted) =>
                /\ State_len(cell') = State_len(cell)
                /\ Container_len(inner') = Container_len(inner)
                /\ State_is_empty(cell') = State_is_empty(cell)
                /\ Container_is_empty(inner') = Container_is_empty(inner)
          /\ (TookOut /\ last'.op = "state_remove") => ~State_is_empty(cell')
          /\ (TookOut /\ last'.op # "state_remove") => ~Container_is_empty(inner')]_vars

\* every value has been removed from the store and every task has left the
\* registry, one by completing and one by Container::remove
C31_Witness ==
    /\ host.inserts = MaxSlots /\ host.adds = MaxTasks
    /\ \A i \in 1 .. Len(cell) : cell[i] = None
    /\ \A i \in 1 .. Len(inner) : inner[i] = None
    /\ State_len(cell) = MaxSlots /\ ~State_is_empty(cell)
    /\ Container_len(inner) = MaxTasks /\ ~Container_is_empty(inner)
    /\ last.op = "step" /\ last.popped # None /\ last.action = None
    /\ clock = 0

====
